---- MODULE Spec2Model ----
(***************************************************************************)
(* Obsidian Decision Engine: the debt payoff simulator                     *)
(* (core/debt/debtSimulator, core/debt/payoffStrategies) and the           *)
(* affordability engine (core/affordability/affordCalculator, affordRules),*)
(* and the idempotency cache of the POST handlers (utils/idempotency).     *)
(*                                                                         *)
(* Money is held in integer cents, APRs in whole percent.  The APRs used   *)
(* (0, 6, 12, 24) are those whose monthly rate apr/100/12 is an exact      *)
(* decimal, so Decimal.js' product balance * rate is the exact product.    *)
(***************************************************************************)
EXTENDS Integers, Sequences, FiniteSets, TLC

VARIABLES
  call,                \* entry point: "simulate" (simulateStrategy) or "compare" (compareStrategies)
  debts,               \* the caller's DebtAccount[] (never mutated)
  extraMonthlyPayment, \* the caller's extra monthly payment
  maxMonths,           \* the caller's month cap
  strategy,            \* strategy of the running simulateStrategy call
  simExtra,            \* extraMonthlyPayment parameter of the running simulateStrategy call
  debtStates,          \* DebtState[] working copy, replaced in place each month
  month,               \* loop counter of simulateStrategy
  freedUpMinimums,     \* minimums freed by debts paid off in earlier months
  totalInterestPaid,
  totalAmountPaid,
  debtInterestPaid,    \* Map debtId -> interest paid so far
  schedule,            \* MonthlySimulationState[]
  payoffOrder,
  results,             \* StrategySimulationResult[] returned so far
  comparison,          \* the StrategyComparison returned by compareStrategies (<<>>: none yet)
  pc,                  \* "loop" | "returned" | "done" ("idle": no simulator call)
  profile,             \* calculateAffordability: the UserFinancialProfile
  purchase,            \* calculateAffordability: the PurchaseRequest
  metrics,             \* AffordabilityMetrics (step 1)
  impact,              \* PurchaseImpact (step 2)
  ruleEvaluation,      \* RuleEvaluationResult (step 3)
  calculation,         \* the returned AffordabilityCalculation (steps 4-7)
  apc,                 \* "start" | "metrics" | "impact" | "rules" | "done" ("idle": no call)
  cache,               \* utils/idempotency: Map key -> CachedResponse
  now,                 \* Date.now(), in units of 300000 ms
  inflight,            \* requests that missed the cache and await their computation
  handled,             \* number of requests received so far; the next request_id
  request,             \* the request received last (<<>>: none yet)
  response             \* the reply sent last (<<>>: none yet)

simVars == <<strategy, simExtra, debtStates, month, freedUpMinimums, totalInterestPaid,
             totalAmountPaid, debtInterestPaid, schedule, payoffOrder>>
inputVars == <<call, debts, extraMonthlyPayment, maxMonths>>
affordVars == <<profile, purchase, metrics, impact, ruleEvaluation, calculation, apc>>
debtVars == <<inputVars, simVars, results, comparison, pc>>
idemVars == <<cache, now, inflight, handled, request, response>>
vars == <<debtVars, affordVars, idemVars>>

-----------------------------------------------------------------------------
(* Bounds of the explored inputs *)

MaxDebts == 2
MaxMonthsBound == 3

(* Program constants, in cents *)
MIN_PAYMENT_FLOOR == 2500
MIN_CREDIT_CARD_PAYMENT_PERCENT == 2
PAID_OFF_TOLERANCE == 1
NOT_PAID_OFF_SENTINEL == 999
QUICK_WIN_MONTHS == 3
AVALANCHE_DIFFERENTIAL == 50000
SNOWBALL_DIFFERENTIAL == 20000

\* minimum_payment?: number -- the value standing for "undefined"
NoMin == -1

Max(a, b) == IF a >= b THEN a ELSE b
Min(a, b) == IF a <= b THEN a ELSE b

RECURSIVE SumSeq(_)
SumSeq(s) == IF s = <<>> THEN 0 ELSE Head(s) + SumSeq(Tail(s))

\* Decimal.toDecimalPlaces(2) of the exact quotient n/d (n >= 0, d > 0), ROUND_HALF_UP
RoundHalfUp(n, d) ==
  LET q == n \div d
      r == n % d
  IN  IF 2 * r >= d THEN q + 1 ELSE q

\* the same for a quotient of either sign: ties round away from zero
RoundHalfUpSigned(n, d) == IF n >= 0 THEN RoundHalfUp(n, d) ELSE 0 - RoundHalfUp(0 - n, d)

-----------------------------------------------------------------------------
(* Input domain *)

DebtChoices ==
  { [type |-> "credit_card",   balance |-> 0,     apr |-> 24, minimum_payment |-> NoMin],
    [type |-> "credit_card",   balance |-> 10000, apr |-> 24, minimum_payment |-> 100],
    [type |-> "credit_card",   balance |-> 5000,  apr |-> 12, minimum_payment |-> 3000],
    [type |-> "personal_loan", balance |-> 10000, apr |-> 12, minimum_payment |-> 3000],
    [type |-> "credit_card",   balance |-> 4000,  apr |-> 0,  minimum_payment |-> NoMin],
    [type |-> "personal_loan", balance |-> 5000,  apr |-> 24, minimum_payment |-> 2000],
    [type |-> "personal_loan", balance |-> 20000, apr |-> 6,  minimum_payment |-> 99] }

DebtLists == UNION { [1..n -> DebtChoices] : n \in 0..MaxDebts }

ExtraChoices == {0, 5000, 100000}

Strategies == <<"avalanche", "snowball", "hybrid", "minimum_only">>
StrategySet == {Strategies[i] : i \in DOMAIN Strategies}

-----------------------------------------------------------------------------
(* Initialization: initializeDebtState / calculateMinimumPayment *)

\* Math.max(balance * 0.02, 25, balance); the 2% term never exceeds the balance
\* for balance >= 0, so its fractional cents never reach the result.
calculateMinimumPayment(debt) ==
  Max(Max((debt.balance * MIN_CREDIT_CARD_PAYMENT_PERCENT) \div 100, MIN_PAYMENT_FLOOR),
      debt.balance)

initializeDebtState(debt, index) ==
  [ id             |-> index,
    type           |-> debt.type,
    balance        |-> debt.balance,
    apr            |-> debt.apr,
    minimumPayment |-> IF debt.minimum_payment # NoMin
                       THEN debt.minimum_payment
                       ELSE calculateMinimumPayment(debt),
    isPaidOff      |-> debt.balance <= 0 ]

IsActive(d) == ~d.isPaidOff /\ d.balance > 0

-----------------------------------------------------------------------------
(* Strategy sorter: payoffStrategies.ts *)

\* an avalanche comparator without the balance tie-break
avalancheCompareAprOnly(a, b) == b.apr - a.apr

avalancheCompare(a, b) ==
  IF b.apr # a.apr THEN b.apr - a.apr ELSE a.balance - b.balance

snowballCompare(a, b) ==
  IF a.balance # b.balance THEN a.balance - b.balance ELSE b.apr - a.apr

SeqMax(s) == CHOOSE x \in {s[i] : i \in DOMAIN s} : \A i \in DOMAIN s : s[i] <= x
SeqMin(s) == CHOOSE x \in {s[i] : i \in DOMAIN s} : \A i \in DOMAIN s : s[i] >= x

\* score = 0.6 * normalizedAPR + 0.4 * normalizedBalance, scaled by the common
\* factor 10 * (maxAPR - minAPR) * (maxBalance - minBalance) (1 where the range is 0)
hybridScore(debt, activeDebts) ==
  LET aprs     == [i \in DOMAIN activeDebts |-> activeDebts[i].apr]
      bals     == [i \in DOMAIN activeDebts |-> activeDebts[i].balance]
      maxAPR   == SeqMax(aprs)
      minAPR   == SeqMin(aprs)
      maxBal   == SeqMax(bals)
      minBal   == SeqMin(bals)
      dA       == IF maxAPR = minAPR THEN 1 ELSE maxAPR - minAPR
      dB       == IF maxBal = minBal THEN 1 ELSE maxBal - minBal
      nA       == IF maxAPR = minAPR THEN 1 ELSE debt.apr - minAPR
      nB       == IF maxBal = minBal THEN 1 ELSE maxBal - debt.balance
  IN  6 * nA * dB + 4 * nB * dA

hybridCompare(a, b, activeDebts) == hybridScore(b, activeDebts) - hybridScore(a, activeDebts)

Compare(strat, a, b, activeDebts) ==
  CASE strat = "avalanche" -> avalancheCompare(a, b)
    [] strat = "snowball"  -> snowballCompare(a, b)
    [] strat = "hybrid"    -> hybridCompare(a, b, activeDebts)
    [] OTHER               -> 0

\* Array.prototype.sort is stable: x, which follows every element of s in the
\* input, goes before the first element it strictly precedes.
RECURSIVE InsertSorted(_, _, _, _)
InsertSorted(x, s, strat, activeDebts) ==
  IF s = <<>> THEN <<x>>
  ELSE IF Compare(strat, x, Head(s), activeDebts) < 0 THEN <<x>> \o s
  ELSE <<Head(s)>> \o InsertSorted(x, Tail(s), strat, activeDebts)

RECURSIVE StableSort(_, _, _)
StableSort(s, strat, activeDebts) ==
  IF s = <<>> THEN <<>>
  ELSE InsertSorted(s[Len(s)], StableSort(SubSeq(s, 1, Len(s) - 1), strat, activeDebts),
                    strat, activeDebts)

sortByAvalanche(ds) == StableSort(SelectSeq(ds, IsActive), "avalanche", SelectSeq(ds, IsActive))
sortBySnowball(ds)  == StableSort(SelectSeq(ds, IsActive), "snowball", SelectSeq(ds, IsActive))
sortByHybrid(ds)    == StableSort(SelectSeq(ds, IsActive), "hybrid", SelectSeq(ds, IsActive))
sortByMinimumOnly(ds) == SelectSeq(ds, IsActive)

getStrategySorter(strat, ds) ==
  CASE strat = "avalanche"    -> sortByAvalanche(ds)
    [] strat = "snowball"     -> sortBySnowball(ds)
    [] strat = "hybrid"       -> sortByHybrid(ds)
    [] strat = "minimum_only" -> sortByMinimumOnly(ds)
    [] OTHER                  -> sortByAvalanche(ds)

RECURSIVE AllocateLoop(_, _, _)
AllocateLoop(sortedDebts, remainingExtra, allocations) ==
  IF sortedDebts = <<>> \/ remainingExtra <= 0 THEN allocations
  ELSE LET debt == Head(sortedDebts) IN
    IF debt.isPaidOff \/ debt.balance <= 0
    THEN AllocateLoop(Tail(sortedDebts), remainingExtra, allocations)
    ELSE LET amountToApply == Min(remainingExtra, debt.balance)
             applied       == [allocations EXCEPT ![debt.id] = amountToApply]
         IN  IF amountToApply < debt.balance
             THEN applied
             ELSE AllocateLoop(Tail(sortedDebts), remainingExtra - amountToApply, applied)

\* an allocation that hands extra to the first debt in priority order only
allocateExtraPaymentsSingleTarget(ds, sortedDebts, extraPayment, freed) ==
  [id \in {ds[i].id : i \in DOMAIN ds} |->
     IF sortedDebts # <<>> /\ id = Head(sortedDebts).id
     THEN Max(0, Min(extraPayment + freed, Head(sortedDebts).balance))
     ELSE 0]

allocateExtraPayments(ds, sortedDebts, extraPayment, freed) ==
  AllocateLoop(sortedDebts, extraPayment + freed,
               [id \in {ds[i].id : i \in DOMAIN ds} |-> 0])

-----------------------------------------------------------------------------
(* One simulated month: simulateMonth *)

interestChargeOf(debt) == RoundHalfUp(debt.balance * debt.apr, 1200)

\* a loop body that books the whole interest charge as paid
ProcessDebtAllInterestPaid(debt, extraForThisDebt) ==
  LET interestCharge      == interestChargeOf(debt)
      desiredPayment      == debt.minimumPayment + extraForThisDebt
      balanceWithInterest == debt.balance + interestCharge
      actualPayment       == Min(desiredPayment, balanceWithInterest)
      interestPaid        == interestCharge
      principalPaid       == actualPayment - interestPaid
      newBalance          == Max(0, balanceWithInterest - actualPayment)
      isPaidOff           == newBalance <= PAID_OFF_TOLERANCE
  IN  [ payment |-> [ debtId           |-> debt.id,
                      paymentAmount    |-> actualPayment,
                      principalPaid    |-> principalPaid,
                      interestPaid     |-> interestPaid,
                      remainingBalance |-> IF isPaidOff THEN 0 ELSE newBalance ],
        debt    |-> [debt EXCEPT !.balance = IF isPaidOff THEN 0 ELSE newBalance,
                                 !.isPaidOff = isPaidOff] ]

\* the loop body of simulateMonth for one active debt
ProcessDebt(debt, extraForThisDebt) ==
  LET interestCharge      == interestChargeOf(debt)
      desiredPayment      == debt.minimumPayment + extraForThisDebt
      balanceWithInterest == debt.balance + interestCharge
      actualPayment       == Min(desiredPayment, balanceWithInterest)
      interestPaid        == Min(interestCharge, actualPayment)
      principalPaid       == actualPayment - interestPaid
      newBalance          == Max(0, balanceWithInterest - actualPayment)
      isPaidOff           == newBalance <= PAID_OFF_TOLERANCE
  IN  [ payment |-> [ debtId           |-> debt.id,
                      paymentAmount    |-> actualPayment,
                      principalPaid    |-> principalPaid,
                      interestPaid     |-> interestPaid,
                      remainingBalance |-> IF isPaidOff THEN 0 ELSE newBalance ],
        debt    |-> [debt EXCEPT !.balance = IF isPaidOff THEN 0 ELSE newBalance,
                                 !.isPaidOff = isPaidOff] ]

\* a loop body that no longer skips debts already paid off
SkipsOnlyNegative(debt) == debt.balance < 0

\* the test at the head of the loop body: a debt that is skipped
SkipsDebt(debt) == debt.isPaidOff \/ debt.balance <= 0

\* an interest total that covers the payments of this month only
totalInterestPaidThisMonthOnly(totalInterestSoFar, payments) ==
  SumSeq([k \in DOMAIN payments |-> payments[k].interestPaid])

\* Math.round((totalInterestSoFar + totalInterestThisMonth) * 100) / 100
totalInterestPaidOf(totalInterestSoFar, payments) ==
  totalInterestSoFar + SumSeq([k \in DOMAIN payments |-> payments[k].interestPaid])

simulateMonth(ds, extraPayment, strat, m, totalInterestSoFar, freed) ==
  LET sortedDebts      == getStrategySorter(strat, ds)
      extraAllocations == allocateExtraPayments(ds, sortedDebts, extraPayment, freed)
      processed        == [i \in DOMAIN ds |-> ProcessDebt(ds[i], extraAllocations[ds[i].id])]
      updatedDebts     == [i \in DOMAIN ds |->
                             IF SkipsDebt(ds[i])
                             THEN [ds[i] EXCEPT !.isPaidOff = TRUE, !.balance = 0]
                             ELSE processed[i].debt]
      idx              == SelectSeq([i \in DOMAIN ds |-> i], LAMBDA i : ~SkipsDebt(ds[i]))
      payments         == [k \in DOMAIN idx |-> processed[idx[k]].payment]
      paidIdx          == SelectSeq(idx, LAMBDA i : processed[i].debt.isPaidOff)
  IN  [ month                 |-> m,
        debts                 |-> updatedDebts,
        payments              |-> payments,
        totalPayment          |-> SumSeq([k \in DOMAIN payments |-> payments[k].paymentAmount]),
        totalInterestPaid     |-> totalInterestPaidOf(totalInterestSoFar, payments),
        totalPrincipalPaid    |-> SumSeq([k \in DOMAIN payments |-> payments[k].principalPaid]),
        totalRemainingDebt    |-> SumSeq([i \in DOMAIN updatedDebts |-> updatedDebts[i].balance]),
        debtsPaidOffThisMonth |-> [k \in DOMAIN paidIdx |-> ds[paidIdx[k]].id],
        extraPaymentApplied   |-> extraPayment + freed ]

-----------------------------------------------------------------------------
(* simulateStrategy *)

\* a loop test that takes any debt, paid off or not, for a remaining one
hasAnyDebt == debtStates # <<>>

hasRemainingDebt == \E i \in DOMAIN debtStates : IsActive(debtStates[i])

\* a loop test that lets one month past the cap through
LoopContinuesPastCap == month <= maxMonths /\ hasRemainingDebt

LoopContinues == month < maxMonths /\ hasRemainingDebt

\* the idempotency cache of a process that has received no request
IdemIdle ==
  /\ cache = <<>>
  /\ now = 0
  /\ inflight = {}
  /\ handled = 0
  /\ request = <<>>
  /\ response = <<>>

\* no calculateAffordability call is in progress
AffordIdle ==
  /\ profile = <<>>
  /\ purchase = <<>>
  /\ metrics = <<>>
  /\ impact = <<>>
  /\ ruleEvaluation = <<>>
  /\ calculation = <<>>
  /\ apc = "idle"

-----------------------------------------------------------------------------
(* compareStrategies: what it derives from the four results *)

findResult(rs, strat) == rs[CHOOSE i \in DOMAIN rs : rs[i].strategy = strat]

\* Math.min / Math.max over a non-empty set of values
MinOver(values) == CHOOSE x \in values : \A y \in values : y >= x
MaxOver(values) == CHOOSE x \in values : \A y \in values : y <= x

hasQuickSnowballWins(rs) ==
  LET snowballResult == findResult(rs, "snowball")
  IN  /\ Len(snowballResult.payoffOrder) > 0
      /\ snowballResult.payoffOrder[1].monthsToPayoff <= QUICK_WIN_MONTHS

interestDifferential(rs) ==
  findResult(rs, "snowball").totalInterestPaid - findResult(rs, "avalanche").totalInterestPaid

\* a recommendation that already prefers avalanche at a differential of exactly $500
recommendedStrategyFromFiveHundred(rs) ==
  IF interestDifferential(rs) >= AVALANCHE_DIFFERENTIAL \/ ~hasQuickSnowballWins(rs)
  THEN "avalanche"
  ELSE IF hasQuickSnowballWins(rs) /\ interestDifferential(rs) < SNOWBALL_DIFFERENTIAL
  THEN "snowball"
  ELSE "hybrid"

recommendedStrategyOf(rs) ==
  IF interestDifferential(rs) > AVALANCHE_DIFFERENTIAL \/ ~hasQuickSnowballWins(rs)
  THEN "avalanche"
  ELSE IF hasQuickSnowballWins(rs) /\ interestDifferential(rs) < SNOWBALL_DIFFERENTIAL
  THEN "snowball"
  ELSE "hybrid"

interestOf(r) == r.totalInterestPaid

\* a minimum taken over the three extra-payment results only
minInterestOfFirstThree(rs) == MinOver({interestOf(rs[i]) : i \in 1..3})

\* Math.min(...results.map((r) => r.totalInterestPaid))
minInterestOf(rs) == MinOver({interestOf(rs[i]) : i \in DOMAIN rs})

\* an extra payment handed to every strategy alike
extraForAnyStrategy(strat, extra) == extra

\* the extraMonthlyPayment argument of the simulateStrategy call for strat
extraForStrategy(strat, extra) == IF strat = "minimum_only" THEN 0 ELSE extra

compareStrategiesResult(rs) ==
  LET monthsOf(r)   == r.totalMonths
      minInterest   == minInterestOf(rs)
      maxInterest   == MaxOver({interestOf(rs[i]) : i \in DOMAIN rs})
      minMonths     == MinOver({monthsOf(rs[i]) : i \in DOMAIN rs})
      minimumOnlyResult == findResult(rs, "minimum_only")
  IN  [ strategies          |-> rs,
        recommendedStrategy |-> recommendedStrategyOf(rs),
        savingsVsMinimum    |-> minimumOnlyResult.totalInterestPaid - minInterest,
        savingsVsWorst      |-> maxInterest - minInterest,
        timeSavedMonths     |-> minimumOnlyResult.totalMonths - minMonths ]

\* state of a simulateStrategy call on entry to its loop
StartSimulation(strat, extra) ==
  /\ strategy' = strat
  /\ simExtra' = extra
  /\ debtStates' = [i \in DOMAIN debts |-> initializeDebtState(debts[i], i)]
  /\ month' = 0
  /\ freedUpMinimums' = 0
  /\ totalInterestPaid' = 0
  /\ totalAmountPaid' = 0
  /\ debtInterestPaid' = [i \in DOMAIN debts |-> 0]
  /\ schedule' = <<>>
  /\ payoffOrder' = <<>>

\* payoffs that free no minimum payment
freedByPayoffsNothing(paid) == 0

\* freedUpMinimums += debt.minimumPayment for each debt paid off this month
freedByPayoffs(paid) ==
  SumSeq([k \in DOMAIN paid |-> debtStates[paid[k]].minimumPayment])

\* one iteration of the while loop
SimulateMonthStep ==
  /\ pc = "loop"
  /\ LoopContinues
  /\ LET monthState == simulateMonth(debtStates, simExtra, strategy, month + 1,
                                     totalInterestPaid, freedUpMinimums)
         paid       == monthState.debtsPaidOffThisMonth
         interest   == [id \in DOMAIN debtInterestPaid |->
                          debtInterestPaid[id]
                          + SumSeq([k \in DOMAIN monthState.payments |->
                                      IF monthState.payments[k].debtId = id
                                      THEN monthState.payments[k].interestPaid ELSE 0])]
     IN
       /\ month' = month + 1
       /\ debtStates' = monthState.debts
       /\ totalInterestPaid' = monthState.totalInterestPaid
       /\ totalAmountPaid' = totalAmountPaid + monthState.totalPayment
       /\ debtInterestPaid' = interest
       /\ freedUpMinimums' = freedUpMinimums + freedByPayoffs(paid)
       /\ payoffOrder' = payoffOrder \o
                           [k \in DOMAIN paid |->
                              [ debtId          |-> paid[k],
                                monthsToPayoff  |-> month + 1,
                                interestPaid    |-> interest[paid[k]],
                                originalBalance |-> debts[paid[k]].balance ]]
       /\ schedule' = Append(schedule, monthState)
  /\ UNCHANGED <<inputVars, strategy, simExtra, results, comparison, pc, affordVars, idemVars>>

\* a required payment that leaves the extra monthly payment out
monthlyPaymentRequiredMinimumsOnly(extra) ==
  SumSeq([i \in DOMAIN debts |-> initializeDebtState(debts[i], i).minimumPayment])

\* monthlyPaymentRequired: totalMinimumPayment + extraMonthlyPayment
monthlyPaymentRequiredOf(extra) ==
  SumSeq([i \in DOMAIN debts |-> initializeDebtState(debts[i], i).minimumPayment]) + extra

\* a months-to-payoff value for unpaid debts that is just the cap
monthsToPayoffAtCap == maxMonths

\* monthsToPayoff recorded for a debt still active when the loop ends
monthsToPayoffUnpaid == maxMonths + NOT_PAID_OFF_SENTINEL

\* loop exit, the remaining debts' payoffOrder entries, and the return value
SimulateStrategyReturn ==
  /\ pc = "loop"
  /\ ~LoopContinues
  /\ LET remIdx    == SelectSeq([i \in DOMAIN debtStates |-> i],
                                LAMBDA i : IsActive(debtStates[i]))
         remaining == [k \in DOMAIN remIdx |->
                         [ debtId          |-> debtStates[remIdx[k]].id,
                           monthsToPayoff  |-> monthsToPayoffUnpaid,
                           interestPaid    |-> debtInterestPaid[debtStates[remIdx[k]].id],
                           originalBalance |-> debts[remIdx[k]].balance ]]
         result    == [ strategy               |-> strategy,
                        totalMonths            |-> month,
                        totalInterestPaid      |-> totalInterestPaid,
                        totalAmountPaid        |-> totalAmountPaid,
                        monthlyPaymentRequired |-> monthlyPaymentRequiredOf(simExtra),
                        schedule               |-> schedule,
                        payoffOrder            |-> payoffOrder \o remaining ]
     IN  /\ payoffOrder' = payoffOrder \o remaining
         /\ results' = Append(results, result)
         /\ comparison' = IF call = "compare" /\ Len(results) + 1 = Len(Strategies)
                          THEN compareStrategiesResult(Append(results, result))
                          ELSE comparison
  /\ pc' = IF call = "compare" /\ Len(results) + 1 < Len(Strategies) THEN "returned" ELSE "done"
  /\ UNCHANGED <<inputVars, strategy, simExtra, debtStates, month, freedUpMinimums,
                 totalInterestPaid, totalAmountPaid, debtInterestPaid, schedule, affordVars, idemVars>>

\* compareStrategies: strategies.map(...) starts the next simulateStrategy call
CompareNextStrategy ==
  /\ pc = "returned"
  /\ LET next == Strategies[Len(results) + 1]
     IN  StartSimulation(next, extraForStrategy(next, extraMonthlyPayment))
  /\ pc' = "loop"
  /\ UNCHANGED <<inputVars, results, comparison, affordVars, idemVars>>

Init ==
  /\ call \in {"simulate", "compare"}
  /\ debts \in DebtLists
  /\ extraMonthlyPayment \in ExtraChoices
  /\ maxMonths \in 0..MaxMonthsBound
  /\ strategy \in (IF call = "compare" THEN {Strategies[1]} ELSE StrategySet)
  /\ simExtra = extraMonthlyPayment
  /\ debtStates = [i \in DOMAIN debts |-> initializeDebtState(debts[i], i)]
  /\ month = 0
  /\ freedUpMinimums = 0
  /\ totalInterestPaid = 0
  /\ totalAmountPaid = 0
  /\ debtInterestPaid = [i \in DOMAIN debts |-> 0]
  /\ schedule = <<>>
  /\ payoffOrder = <<>>
  /\ results = <<>>
  /\ comparison = <<>>
  /\ pc = "loop"
  /\ AffordIdle
  /\ IdemIdle

Next ==
  \/ SimulateMonthStep
  \/ SimulateStrategyReturn
  \/ CompareNextStrategy

Spec == Init /\ [][Next]_vars

\* compareStrategies on debts large enough for the interest differential to
\* reach the recommendation thresholds
CompareDebtChoices ==
  { [type |-> "personal_loan", balance |-> 5000000, apr |-> 24, minimum_payment |-> 10000],
    [type |-> "personal_loan", balance |-> 3000000, apr |-> 0,  minimum_payment |-> 10000],
    [type |-> "personal_loan", balance |-> 2500000, apr |-> 0,  minimum_payment |-> 10000],
    [type |-> "personal_loan", balance |-> 1000000, apr |-> 0,  minimum_payment |-> 10000],
    [type |-> "personal_loan", balance |-> 999900,  apr |-> 0,  minimum_payment |-> 10000],
    [type |-> "credit_card",   balance |-> 0,       apr |-> 24, minimum_payment |-> NoMin],
    [type |-> "credit_card",   balance |-> 10000,   apr |-> 24, minimum_payment |-> 100] }

CompareDebtLists == UNION { [1..n -> CompareDebtChoices] : n \in 0..MaxDebts }

CompareExtraChoices == {0, 5000000}

InitCompare ==
  /\ call = "compare"
  /\ debts \in CompareDebtLists
  /\ extraMonthlyPayment \in CompareExtraChoices
  /\ maxMonths \in 0..MaxMonthsBound
  /\ strategy = Strategies[1]
  /\ simExtra = extraForStrategy(Strategies[1], extraMonthlyPayment)
  /\ debtStates = [i \in DOMAIN debts |-> initializeDebtState(debts[i], i)]
  /\ month = 0
  /\ freedUpMinimums = 0
  /\ totalInterestPaid = 0
  /\ totalAmountPaid = 0
  /\ debtInterestPaid = [i \in DOMAIN debts |-> 0]
  /\ schedule = <<>>
  /\ payoffOrder = <<>>
  /\ results = <<>>
  /\ comparison = <<>>
  /\ pc = "loop"
  /\ AffordIdle
  /\ IdemIdle

SpecCompare == InitCompare /\ [][Next]_vars

-----------------------------------------------------------------------------
(* Properties of the debt simulator *)

\* principal recorded for debt id over the months simulated so far
PrincipalPaidTo(id) ==
  SumSeq([m \in DOMAIN schedule |->
            SumSeq([k \in DOMAIN schedule[m].payments |->
                      IF schedule[m].payments[k].debtId = id
                      THEN schedule[m].payments[k].principalPaid ELSE 0])])

HasPaymentIn(m, id) ==
  \E k \in DOMAIN schedule[m].payments : schedule[m].payments[k].debtId = id

\* the debt states a month starts from
StatesBefore(m) ==
  IF m = 1 THEN [i \in DOMAIN debts |-> initializeDebtState(debts[i], i)]
  ELSE schedule[m - 1].debts

\* C1: simulateStrategy never simulates more than maxMonths months, whatever the
\* debts do (also when a balance grows month over month); the months simulated
\* are recorded one schedule entry each, numbered 1..totalMonths, and every
\* returned result has totalMonths <= maxMonths and a schedule of that length.
C1_MonthCapRespected ==
  /\ month <= maxMonths
  /\ Len(schedule) = month
  /\ \A i \in DOMAIN schedule : schedule[i].month = i
  /\ \A r \in DOMAIN results :
        /\ results[r].totalMonths <= maxMonths
        /\ Len(results[r].schedule) = results[r].totalMonths
        /\ \A i \in DOMAIN results[r].schedule : results[r].schedule[i].month = i

\* a run that stopped at the cap with a debt whose balance has grown
C1_Witness ==
  /\ pc = "done"
  /\ call = "simulate"
  /\ maxMonths >= 2
  /\ results[1].totalMonths = maxMonths
  /\ \E i \in DOMAIN debtStates :
        IsActive(debtStates[i]) /\ debtStates[i].balance > debts[i].balance

\* C2: after every simulated month every debt state has balance >= 0 and a
\* paid-off debt has balance 0; a debt that starts a month paid off ends it
\* paid off and has no DebtPayment record in that month.
C2_PaidOffIsFinal ==
  \A m \in DOMAIN schedule :
    \A i \in DOMAIN schedule[m].debts :
      LET d == schedule[m].debts[i] IN
        /\ d.balance >= 0
        /\ d.isPaidOff => d.balance = 0
        /\ StatesBefore(m)[i].isPaidOff =>
              d.isPaidOff /\ ~HasPaymentIn(m, d.id)

\* a debt paid off by a payment in one month, with a later month simulated
C2_Witness ==
  \E m \in DOMAIN schedule : \E i \in DOMAIN debts :
    /\ m >= 2
    /\ debts[i].balance > 0
    /\ StatesBefore(m)[i].isPaidOff
    /\ Len(schedule[m].payments) > 0

\* C3: for every debt that has been paid off, the principalPaid of its
\* DebtPayment records sums to its original balance to within one cent.
C3_PrincipalSumsToOriginalBalance ==
  \A i \in DOMAIN debtStates :
    (debtStates[i].isPaidOff /\ debts[i].balance > 0) =>
      /\ PrincipalPaidTo(i) >= debts[i].balance - 1
      /\ PrincipalPaidTo(i) <= debts[i].balance + 1

\* C4: in the result of compareStrategies the avalanche simulation's total
\* interest is at most the snowball simulation's.
C4_AvalancheInterestAtMostSnowball ==
  (pc = "done" /\ call = "compare") =>
    results[1].totalInterestPaid <= results[2].totalInterestPaid

\* C5: under minimum_only every payment is at most the debt's own minimum payment.
C5_MinimumOnlyPaysOnlyMinimums ==
  strategy = "minimum_only" =>
    \A m \in DOMAIN schedule : \A k \in DOMAIN schedule[m].payments :
      LET p == schedule[m].payments[k] IN
        p.paymentAmount <= initializeDebtState(debts[p.debtId], p.debtId).minimumPayment

\* C6: when the extra payment exceeds the total balance plus one month of
\* interest on every debt, simulateStrategy returns totalMonths = 1.
C6_HugeExtraPaysOffInOneMonth ==
  ( /\ pc = "done"
    /\ call = "simulate"
    /\ maxMonths >= 1
    /\ \E i \in DOMAIN debts : debts[i].balance > 0
    /\ simExtra > SumSeq([i \in DOMAIN debts |->
                            debts[i].balance
                            + interestChargeOf(initializeDebtState(debts[i], i))]) )
  => results[1].totalMonths = 1

\* the debt states a returned result ended with
FinalDebtsOf(res) ==
  IF res.schedule = <<>> THEN [i \in DOMAIN debts |-> initializeDebtState(debts[i], i)]
  ELSE res.schedule[Len(res.schedule)].debts

\* month m of the result's schedule reports debt id as paid off in that month
PaidOffInMonth(res, id, m) ==
  /\ m \in DOMAIN res.schedule
  /\ \E k \in DOMAIN res.schedule[m].debtsPaidOffThisMonth :
        res.schedule[m].debtsPaidOffThisMonth[k] = id

\* C14: when the month cap is reached with debts still active, simulateStrategy
\* returns normally and payoffOrder holds every debt that started with a positive
\* balance exactly once: each paid-off debt with the month in which it was paid
\* off, in non-decreasing month order, followed by each still-active debt with
\* monthsToPayoff = maxMonths + 999.
C14_PayoffOrderAtCap ==
  \A r \in DOMAIN results :
    LET res    == results[r]
        po     == res.payoffOrder
        final  == FinalDebtsOf(res)
        active == {i \in DOMAIN final : IsActive(final[i])}
    IN  /\ {po[k].debtId : k \in DOMAIN po} = {i \in DOMAIN debts : debts[i].balance > 0}
        /\ \A j, k \in DOMAIN po : po[j].debtId = po[k].debtId => j = k
        /\ \A k \in DOMAIN po :
              IF po[k].debtId \in active
              THEN /\ po[k].monthsToPayoff = maxMonths + 999
                   /\ res.totalMonths = maxMonths
                   /\ \A j \in DOMAIN po : j > k => po[j].debtId \in active
              ELSE /\ PaidOffInMonth(res, po[k].debtId, po[k].monthsToPayoff)
                   /\ \A j \in DOMAIN po :
                         (j < k) => /\ po[j].debtId \notin active
                                    /\ po[j].monthsToPayoff <= po[k].monthsToPayoff

\* a run stopped by the cap after paying off one debt, another still active
C14_Witness ==
  /\ pc = "done"
  /\ call = "simulate"
  /\ maxMonths >= 2
  /\ Len(results[1].payoffOrder) = 2
  /\ results[1].payoffOrder[1].monthsToPayoff <= maxMonths
  /\ results[1].payoffOrder[2].monthsToPayoff = maxMonths + 999
  /\ \E i \in DOMAIN debtStates : IsActive(debtStates[i])

\* C20: a debt with zero balance is paid off from the start and never appears in
\* any month's payments or in payoffOrder; when no debt has a positive balance
\* (the empty list included) simulateStrategy returns totalMonths = 0,
\* totalInterestPaid = 0 and an empty schedule.
C20_ZeroBalanceDebtsIgnored ==
  /\ \A i \in DOMAIN debts :
        debts[i].balance = 0 =>
          /\ debtStates[i].isPaidOff
          /\ \A m \in DOMAIN schedule : ~HasPaymentIn(m, i)
          /\ \A k \in DOMAIN payoffOrder : payoffOrder[k].debtId # i
          /\ \A r \in DOMAIN results :
                /\ \A m \in DOMAIN results[r].schedule :
                      \A k \in DOMAIN results[r].schedule[m].payments :
                         results[r].schedule[m].payments[k].debtId # i
                /\ \A k \in DOMAIN results[r].payoffOrder :
                      results[r].payoffOrder[k].debtId # i
  /\ (\A i \in DOMAIN debts : debts[i].balance <= 0) =>
        \A r \in DOMAIN results :
           /\ results[r].totalMonths = 0
           /\ results[r].totalInterestPaid = 0
           /\ results[r].schedule = <<>>

\* a zero-balance debt beside a debt that was paid down for two months
C20_Witness ==
  /\ pc = "done"
  /\ call = "simulate"
  /\ \E i \in DOMAIN debts : debts[i].balance = 0
  /\ \E i \in DOMAIN debts : debts[i].balance > 0
  /\ Len(results[1].schedule) >= 2
  /\ Len(results[1].payoffOrder) = 1

-----------------------------------------------------------------------------
(* Properties of one simulated month *)

\* the active debts of month m in the priority order of the running strategy
SortedBefore(m) == getStrategySorter(strategy, StatesBefore(m))

\* the DebtPayment record of debt id in month m
PaymentOf(m, id) ==
  schedule[m].payments[CHOOSE k \in DOMAIN schedule[m].payments :
                          schedule[m].payments[k].debtId = id]

\* the payments of month m that exceed the paying debt's own minimum
PaymentsAboveMinimum(m) ==
  {k \in DOMAIN schedule[m].payments :
     schedule[m].payments[k].paymentAmount
       > StatesBefore(m)[schedule[m].payments[k].debtId].minimumPayment}

\* what is left of the month's extra budget after the balances of the debts
\* ahead of position j in the priority order, capped at the balance of debt j
ExtraShareOf(m, j) ==
  LET sorted == SortedBefore(m)
      ahead  == SumSeq([k \in 1..(j - 1) |-> sorted[k].balance])
  IN  Min(Max(0, schedule[m].extraPaymentApplied - ahead), sorted[j].balance)

PaidOffDuring(n, i) ==
  /\ IsActive(StatesBefore(n)[i])
  /\ schedule[n].debts[i].isPaidOff

\* the minimum payments of the debts paid off in months before m
FreedBefore(m) ==
  SumSeq([i \in DOMAIN debts |->
            IF \E n \in 1..(m - 1) : PaidOffDuring(n, i)
            THEN StatesBefore(1)[i].minimumPayment ELSE 0])

\* C22: the extra budget of month m is the caller's extra payment plus the
\* minimum payments of exactly the debts paid off in months strictly before m;
\* a debt paid off in month m adds its minimum from month m + 1 on, and every
\* paid-off debt's minimum is added exactly once.
C22_BudgetIsExtraPlusFreedMinimums ==
  /\ \A m \in DOMAIN schedule :
        schedule[m].extraPaymentApplied = simExtra + FreedBefore(m)
  /\ \A i \in DOMAIN debts :
        Cardinality({n \in DOMAIN schedule : PaidOffDuring(n, i)}) <= 1
  /\ freedUpMinimums = FreedBefore(Len(schedule) + 1)

\* a debt paid off in one month whose minimum is in the budget of a later month
\* in which another debt is still being paid
C22_Witness ==
  \E m \in DOMAIN schedule : \E i \in DOMAIN debts :
    /\ m >= 2
    /\ PaidOffDuring(m - 1, i)
    /\ StatesBefore(1)[i].minimumPayment > 0
    /\ schedule[m - 1].extraPaymentApplied = simExtra
    /\ schedule[m].extraPaymentApplied = simExtra + StatesBefore(1)[i].minimumPayment
    /\ schedule[m].payments # <<>>

\* the sum of one field over the DebtPayment records of month m
InterestPaidIn(m) ==
  SumSeq([k \in DOMAIN schedule[m].payments |-> schedule[m].payments[k].interestPaid])

PaymentAmountIn(m) ==
  SumSeq([k \in DOMAIN schedule[m].payments |-> schedule[m].payments[k].paymentAmount])

PrincipalPaidIn(m) ==
  SumSeq([k \in DOMAIN schedule[m].payments |-> schedule[m].payments[k].principalPaid])

RemainingBalanceIn(m) ==
  SumSeq([k \in DOMAIN schedule[m].payments |-> schedule[m].payments[k].remainingBalance])

\* C26 as stated: every aggregate of a MonthlySimulationState is a sum over that
\* month's DebtPayment records alone, totalInterestPaid being the sum of their
\* interestPaid.
C26_TotalsAreSumsOfTheMonth ==
  \A m \in DOMAIN schedule :
    /\ schedule[m].totalPayment = PaymentAmountIn(m)
    /\ schedule[m].totalInterestPaid = InterestPaidIn(m)
    /\ schedule[m].totalPrincipalPaid = PrincipalPaidIn(m)
    /\ schedule[m].totalRemainingDebt = RemainingBalanceIn(m)

\* C26 amended: totalPayment, totalPrincipalPaid and totalRemainingDebt are sums
\* over the month's DebtPayment records (paymentAmount, principalPaid, remaining
\* balance); totalInterestPaid is the running total of interestPaid over the
\* records of every month up to and including this one.
C26_InterestTotalIsCumulative ==
  \A m \in DOMAIN schedule :
    /\ schedule[m].totalPayment = PaymentAmountIn(m)
    /\ schedule[m].totalInterestPaid = SumSeq([n \in 1..m |-> InterestPaidIn(n)])
    /\ schedule[m].totalPrincipalPaid = PrincipalPaidIn(m)
    /\ schedule[m].totalRemainingDebt = RemainingBalanceIn(m)

\* a second month with interest paid in both months
C26_Witness ==
  /\ Len(schedule) >= 2
  /\ InterestPaidIn(1) > 0
  /\ InterestPaidIn(2) > 0
  /\ schedule[2].totalInterestPaid = InterestPaidIn(1) + InterestPaidIn(2)

\* the place of debt id in the priority order of month m
PositionIn(m, id) ==
  CHOOSE j \in DOMAIN SortedBefore(m) : SortedBefore(m)[j].id = id

\* C27: for every DebtPayment, in whole cents, paymentAmount = min(minimum +
\* allocated extra, balance + interest), interestPaid = min(interest,
\* paymentAmount) and principalPaid = paymentAmount - interestPaid, so that
\* paymentAmount = interestPaid + principalPaid <= balance + interest; the new
\* balance is max(0, balance + interest - paymentAmount), and the debt is set to
\* balance 0 and marked paid off when that is at most $0.01.
C27_PaymentSplit ==
  \A m \in DOMAIN schedule : \A k \in DOMAIN schedule[m].payments :
    LET p        == schedule[m].payments[k]
        before   == StatesBefore(m)[p.debtId]
        after    == schedule[m].debts[p.debtId]
        interest == interestChargeOf(before)
        extra    == ExtraShareOf(m, PositionIn(m, p.debtId))
        owed     == before.balance + interest
        left     == Max(0, owed - p.paymentAmount)
    IN  /\ IsActive(before)
        /\ p.paymentAmount = Min(before.minimumPayment + extra, owed)
        /\ p.interestPaid = Min(interest, p.paymentAmount)
        /\ p.principalPaid = p.paymentAmount - p.interestPaid
        /\ p.paymentAmount = p.interestPaid + p.principalPaid
        /\ p.paymentAmount <= owed
        /\ p.principalPaid >= 0
        /\ after.isPaidOff = (left <= 1)
        /\ after.balance = (IF left <= 1 THEN 0 ELSE left)
        /\ p.remainingBalance = after.balance

\* a payment of minimum plus allocated extra that covers the interest in full
\* and leaves one cent of balance plus interest, on which the debt is closed
C27_Witness ==
  \E m \in DOMAIN schedule : \E k \in DOMAIN schedule[m].payments :
    LET p      == schedule[m].payments[k]
        before == StatesBefore(m)[p.debtId]
    IN  /\ p.paymentAmount = before.minimumPayment + before.balance
        /\ before.balance + interestChargeOf(before) - p.paymentAmount = 1
        /\ p.interestPaid = interestChargeOf(before)
        /\ p.interestPaid > 0
        /\ p.principalPaid = before.balance - 1
        /\ p.remainingBalance = 0
        /\ schedule[m].debts[p.debtId].isPaidOff

\* C28: in every simulated month of every strategy the payments made across all
\* debts sum to at most the result's monthlyPaymentRequired, the total of all
\* resolved minimum payments plus the caller's extra monthly payment.
C28_MonthlyPaymentsWithinRequired ==
  /\ \A m \in DOMAIN schedule :
        PaymentAmountIn(m)
          <= SumSeq([i \in DOMAIN debts |-> StatesBefore(1)[i].minimumPayment]) + simExtra
  /\ \A r \in DOMAIN results : \A m \in DOMAIN results[r].schedule :
        /\ results[r].schedule[m].totalPayment <= results[r].monthlyPaymentRequired
        /\ SumSeq([k \in DOMAIN results[r].schedule[m].payments |->
                     results[r].schedule[m].payments[k].paymentAmount])
              <= results[r].monthlyPaymentRequired

\* a returned result with a month after a payoff in which the freed minimum and
\* the extra are spent in full: the payments equal monthlyPaymentRequired
C28_Witness ==
  /\ pc = "done"
  /\ \E r \in DOMAIN results : \E m \in DOMAIN results[r].schedule :
        /\ m >= 2
        /\ results[r].schedule[m].extraPaymentApplied
             > results[r].monthlyPaymentRequired - SumSeq([i \in DOMAIN debts |-> StatesBefore(1)[i].minimumPayment])
        /\ results[r].monthlyPaymentRequired
             > SumSeq([i \in DOMAIN debts |-> StatesBefore(1)[i].minimumPayment])
        /\ results[r].schedule[m].totalPayment = results[r].monthlyPaymentRequired

\* sorted holds exactly the active debts of ds, each once and unaltered
IsTheActiveDebtsOf(sorted, ds) ==
  /\ Len(sorted) = Cardinality({i \in DOMAIN ds : IsActive(ds[i])})
  /\ {sorted[j].id : j \in DOMAIN sorted} = {ds[i].id : i \in {i \in DOMAIN ds : IsActive(ds[i])}}
  /\ \A j \in DOMAIN sorted : sorted[j] = ds[sorted[j].id]

\* APR descending, ties by balance ascending
InAvalancheOrder(sorted) ==
  \A j, k \in DOMAIN sorted :
    j < k => \/ sorted[j].apr > sorted[k].apr
             \/ sorted[j].apr = sorted[k].apr /\ sorted[j].balance <= sorted[k].balance

\* balance ascending, ties by APR descending
InSnowballOrder(sorted) ==
  \A j, k \in DOMAIN sorted :
    j < k => \/ sorted[j].balance < sorted[k].balance
             \/ sorted[j].balance = sorted[k].balance /\ sorted[j].apr >= sorted[k].apr

\* C29: sortByAvalanche returns exactly the active debts ordered by APR
\* descending with ties broken by balance ascending, sortBySnowball exactly the
\* active debts ordered by balance ascending with ties broken by APR descending;
\* the list they are given keeps its order: every debt state stays at its place
\* and the month's payments follow the order of the list.
C29_SortersOrderActiveDebts ==
  /\ IsTheActiveDebtsOf(sortByAvalanche(debtStates), debtStates)
  /\ InAvalancheOrder(sortByAvalanche(debtStates))
  /\ IsTheActiveDebtsOf(sortBySnowball(debtStates), debtStates)
  /\ InSnowballOrder(sortBySnowball(debtStates))
  /\ \A i \in DOMAIN debtStates : debtStates[i].id = i
  /\ \A m \in DOMAIN schedule :
        /\ \A i \in DOMAIN schedule[m].debts : schedule[m].debts[i].id = i
        /\ \A j, k \in DOMAIN schedule[m].payments :
              j < k => schedule[m].payments[j].debtId < schedule[m].payments[k].debtId

\* an avalanche month on two active debts of equal APR of which the second has
\* the smaller balance: the tie-break puts the second debt first, while the
\* month's payments keep the order of the list
C29_Witness ==
  /\ strategy = "avalanche"
  /\ Len(schedule) >= 1
  /\ Len(StatesBefore(1)) = 2
  /\ StatesBefore(1)[1].apr = StatesBefore(1)[2].apr
  /\ StatesBefore(1)[1].balance > StatesBefore(1)[2].balance
  /\ StatesBefore(1)[2].balance > 0
  /\ sortByAvalanche(StatesBefore(1))[1].id = 2
  /\ sortBySnowball(StatesBefore(1))[1].id = 2
  /\ Len(schedule[1].payments) = 2
  /\ schedule[1].payments[1].debtId = 1

-----------------------------------------------------------------------------
(* Properties of compareStrategies *)

CompareDone == pc = "done" /\ call = "compare"

\* snowball's first payoffOrder entry exists and is within 3 months
SnowballFirstPayoffWithinThree ==
  /\ results[2].payoffOrder # <<>>
  /\ Head(results[2].payoffOrder).monthsToPayoff <= 3

\* snowball's total interest minus avalanche's, in cents
SnowballMinusAvalanche == results[2].totalInterestPaid - results[1].totalInterestPaid

\* C11: compareStrategies recommends avalanche if snowball's total interest minus
\* avalanche's exceeds $500 or snowball's first payoff is not within 3 months;
\* otherwise snowball if that differential is below $200; otherwise hybrid.
C11_RecommendationRule ==
  CompareDone =>
    comparison.recommendedStrategy =
      IF SnowballMinusAvalanche > 50000 \/ ~SnowballFirstPayoffWithinThree THEN "avalanche"
      ELSE IF SnowballMinusAvalanche < 20000 THEN "snowball"
      ELSE "hybrid"

\* a quick snowball win with a differential of exactly $500: hybrid, not avalanche
C11_Witness ==
  /\ CompareDone
  /\ SnowballFirstPayoffWithinThree
  /\ SnowballMinusAvalanche = 50000
  /\ comparison.recommendedStrategy = "hybrid"

\* total of the minimum payments of the caller's debts
TotalMinimumPayment ==
  SumSeq([i \in DOMAIN debts |-> initializeDebtState(debts[i], i).minimumPayment])

\* C12: compareStrategies returns exactly four results, one each for avalanche,
\* snowball, hybrid and minimum_only, all simulated from the caller's debts;
\* avalanche, snowball and hybrid run with the caller's extra payment and
\* minimum_only with zero extra.
C12_FourResultsSameDebts ==
  /\ (call = "compare" /\ pc = "loop") =>
        /\ strategy = Strategies[Len(results) + 1]
        /\ simExtra = (IF strategy = "minimum_only" THEN 0 ELSE extraMonthlyPayment)
        /\ month = 0 => debtStates = [i \in DOMAIN debts |-> initializeDebtState(debts[i], i)]
  /\ CompareDone =>
        /\ Len(comparison.strategies) = 4
        /\ comparison.strategies = results
        /\ \A i \in 1..4 :
              /\ results[i].strategy = Strategies[i]
              /\ results[i].monthlyPaymentRequired =
                   TotalMinimumPayment + (IF i = 4 THEN 0 ELSE extraMonthlyPayment)
              /\ {results[i].payoffOrder[k].debtId : k \in DOMAIN results[i].payoffOrder}
                   = {d \in DOMAIN debts : debts[d].balance > 0}

\* a comparison of a non-empty debt set with a positive extra payment
C12_Witness ==
  /\ CompareDone
  /\ extraMonthlyPayment > 0
  /\ \E d \in DOMAIN debts : debts[d].balance > 0
  /\ results[4].monthlyPaymentRequired < results[1].monthlyPaymentRequired
  /\ results[4].totalAmountPaid < results[1].totalAmountPaid

\* the smallest element of a non-empty set of integers
SetMin(S) == CHOOSE x \in S : \A y \in S : x <= y

\* C13 as stated: savingsVsMinimum is the minimum_only result's total interest
\* minus the smallest total interest among the avalanche, snowball and hybrid
\* results.
C13_SavingsOverThreeStrategies ==
  CompareDone =>
    comparison.savingsVsMinimum =
      results[4].totalInterestPaid - SetMin({results[i].totalInterestPaid : i \in 1..3})

\* C13 amended: savingsVsMinimum is the minimum_only result's total interest minus
\* the smallest total interest among all four results, minimum_only included; it
\* is 0 when minimum_only has the smallest total interest and never negative.
C13_SavingsOverAllFourStrategies ==
  CompareDone =>
    /\ comparison.savingsVsMinimum =
         results[4].totalInterestPaid - SetMin({results[i].totalInterestPaid : i \in 1..4})
    /\ comparison.savingsVsMinimum >= 0

\* minimum_only with strictly the smallest total interest of the four
C13_Witness ==
  /\ CompareDone
  /\ \A i \in 1..3 : results[4].totalInterestPaid < results[i].totalInterestPaid
  /\ comparison.savingsVsMinimum = 0

-----------------------------------------------------------------------------
(* Affordability engine: affordCalculator / affordRules.                   *)
(* Money in cents.  A quotient the code keeps as a double is held as the   *)
(* exact fraction num/den (den > 0) and compared by cross-multiplication;  *)
(* where the double arithmetic of the code decides a comparison otherwise  *)
(* than the exact value does, the outcome of the double arithmetic is      *)
(* tabulated (FloatSumAboveThirty, FloatScoreBelow).                       *)

NoLimit == -1

RECURSIVE GCD(_, _)
GCD(a, b) == IF b = 0 THEN a ELSE GCD(b, a % b)

\* the fraction n/d (d > 0) in lowest terms
Ratio(n, d)  == LET g == GCD(IF n < 0 THEN 0 - n ELSE n, d)
                IN  [null |-> FALSE, num |-> n \div g, den |-> d \div g]
NullRatio    == [null |-> TRUE,  num |-> 0, den |-> 1]
RatioLE(r, a, b) == r.num * b <= a * r.den     \* r <= a/b
RatioGE(r, a, b) == r.num * b >= a * r.den     \* r >= a/b
RatioLT(r, a, b) == r.num * b <  a * r.den     \* r <  a/b
RatioGT(r, a, b) == r.num * b >  a * r.den     \* r >  a/b

Cents(v)     == [null |-> FALSE, value |-> v]
NullCents    == [null |-> TRUE,  value |-> 0]

RECURSIVE Pow(_, _)
Pow(x, n) == IF n = 0 THEN 1 ELSE x * Pow(x, n - 1)

\* Input domain

IncomeChoices  == {0, 100000}
ExpenseChoices == {0, 50000, 95000}

\* cash_balance, savings_balance ?? 0, emergency_fund ?? 0
LiquidChoices ==
  { [cash_balance |-> 0,      savings_balance |-> 0,      emergency_fund |-> 0],
    [cash_balance |-> 30000,  savings_balance |-> 0,      emergency_fund |-> 0],
    [cash_balance |-> 60000,  savings_balance |-> 0,      emergency_fund |-> 0],
    [cash_balance |-> 60000,  savings_balance |-> 100000, emergency_fund |-> 0],
    [cash_balance |-> 100000, savings_balance |-> 100000, emergency_fund |-> 200000] }

ProfileDebtChoices ==
  { <<>>,
    <<[type |-> "credit_card", balance |-> 20000, minimum_payment |-> 2500, credit_limit |-> 100000]>>,
    <<[type |-> "credit_card", balance |-> 80000, minimum_payment |-> 30000, credit_limit |-> 100000]>>,
    <<[type |-> "credit_card", balance |-> 5000, minimum_payment |-> NoMin, credit_limit |-> NoLimit]>>,
    <<[type |-> "credit_card", balance |-> 5000, minimum_payment |-> 2500, credit_limit |-> 0]>>,
    <<[type |-> "credit_card", balance |-> 0, minimum_payment |-> 2500, credit_limit |-> 100000],
      [type |-> "personal_loan", balance |-> 50000, minimum_payment |-> 27500, credit_limit |-> NoLimit]>> }

Profiles ==
  { [ monthly_income         |-> inc,
      monthly_fixed_expenses |-> ex,
      cash_balance           |-> liq.cash_balance,
      savings_balance        |-> liq.savings_balance,
      emergency_fund         |-> liq.emergency_fund,
      debts                  |-> ds ] :
      inc \in IncomeChoices, ex \in ExpenseChoices, liq \in LiquidChoices,
      ds \in ProfileDebtChoices }

NoTerms == [defined |-> FALSE, apr |-> 0, term_months |-> 1, down_payment |-> 0]

FinancingChoices ==
  { NoTerms,
    [defined |-> TRUE, apr |-> 0,  term_months |-> 10, down_payment |-> 0],
    [defined |-> TRUE, apr |-> 12, term_months |-> 1,  down_payment |-> 5000] }

PaymentMethods ==
  {"cash", "debit", "savings", "credit_card", "buy_now_pay_later", "financing", "mixed"}

AmountChoices == {4000, 10000, 40000, 300000}

Purchases ==
  { [amount |-> a, payment_method |-> pm, financing_terms |-> ft] :
      a \in AmountChoices, pm \in PaymentMethods \ {"financing"}, ft \in {NoTerms} }
  \cup
  { [amount |-> a, payment_method |-> "financing", financing_terms |-> ft] :
      a \in AmountChoices, ft \in FinancingChoices }

\* calculateMinimumPayment of affordCalculator, credit_card case
affordMinimumPayment(debt) ==
  IF debt.minimum_payment # NoMin THEN debt.minimum_payment
  ELSE Max(RoundHalfUp(debt.balance * MIN_CREDIT_CARD_PAYMENT_PERCENT, 100), MIN_PAYMENT_FLOOR)

\* in hundredths (toDisplayDollars of the quotient)
calculateCreditUtilization(ds) ==
  LET creditCards  == SelectSeq(ds, LAMBDA d : d.type = "credit_card"
                                               /\ d.credit_limit # NoLimit /\ d.credit_limit > 0)
      totalBalance == SumSeq([i \in DOMAIN creditCards |-> creditCards[i].balance])
      totalLimit   == SumSeq([i \in DOMAIN creditCards |-> creditCards[i].credit_limit])
  IN  IF Len(creditCards) = 0 THEN 0
      ELSE IF totalLimit = 0 THEN 0
      ELSE RoundHalfUp(100 * totalBalance, totalLimit)

calculateMetrics(p) ==
  LET monthlyIncome       == p.monthly_income
      monthlyExpenses     == p.monthly_fixed_expenses
      monthlyDebtPayments == SumSeq([i \in DOMAIN p.debts |-> affordMinimumPayment(p.debts[i])])
      monthlyCashflow     == monthlyIncome - monthlyExpenses - monthlyDebtPayments
      liquidAssets        == p.cash_balance + p.savings_balance + p.emergency_fund
      annualDebtPayments  == monthlyDebtPayments * 12
      annualIncome        == monthlyIncome * 12
      monthlyEssentialExpenses == monthlyExpenses + monthlyDebtPayments
  IN  [ monthlyIncome       |-> monthlyIncome,
        monthlyExpenses     |-> monthlyExpenses,
        monthlyDebtPayments |-> monthlyDebtPayments,
        monthlyCashflow     |-> monthlyCashflow,
        liquidAssets        |-> liquidAssets,
        totalDebt           |-> SumSeq([i \in DOMAIN p.debts |-> p.debts[i].balance]),
        debtToIncomeRatio   |-> IF annualIncome > 0
                                THEN Ratio(annualDebtPayments, annualIncome) ELSE Ratio(0, 1),
        creditUtilization   |-> calculateCreditUtilization(p.debts),
        emergencyFundMonths |-> IF monthlyEssentialExpenses > 0
                                THEN Ratio(liquidAssets, monthlyEssentialExpenses) ELSE Ratio(0, 1),
        savingsRate         |-> IF monthlyIncome > 0
                                THEN Ratio(Max(0, monthlyCashflow), monthlyIncome) ELSE Ratio(0, 1) ]

\* payment per unit financed, as a fraction:
\* 1/n when the rate is 0, else r(1+r)^n / ((1+r)^n - 1) with r = apr/1200
amortizedFactor(apr, n) ==
  IF apr = 0 THEN Ratio(1, n)
  ELSE LET top == apr * Pow(1200 + apr, n)
           bot == 1200 * (Pow(1200 + apr, n) - Pow(1200, n))
       IN  Ratio(top, bot)

\* a purchase that leaves the liquid assets as they are
cashUntouched(liquidAssets, purchaseAmount) == liquidAssets

\* cash, debit and savings: the purchase comes straight out of the liquid assets
cashAfterPurchase(liquidAssets, purchaseAmount) == liquidAssets - purchaseAmount

\* a buffer consumption that is 0 when there are no liquid assets
bufferConsumptionPercentZeroDefault(liquidAssets, projectedCashBalance) ==
  IF liquidAssets > 0
  THEN Ratio(Max(0, liquidAssets - projectedCashBalance), liquidAssets)
  ELSE Ratio(0, 1)

\* liquidAssets > 0 ? Math.max(0, 1 - projectedCashBalance / liquidAssets) : 1
bufferConsumptionPercentOf(liquidAssets, projectedCashBalance) ==
  IF liquidAssets > 0
  THEN Ratio(Max(0, liquidAssets - projectedCashBalance), liquidAssets)
  ELSE Ratio(1, 1)

calculatePurchaseImpact(m, pu, p) ==
  LET purchaseAmount == pu.amount
      pm             == pu.payment_method
      ft             == pu.financing_terms
      limited        == SelectSeq(p.debts, LAMBDA d : d.type = "credit_card"
                                                      /\ d.credit_limit # NoLimit)
      totalCreditLimit == SumSeq([i \in DOMAIN limited |-> limited[i].credit_limit])
      \* Math.max(purchaseAmount * 0.02, 25), in hundredths of a cent
      newMinPayment  == Max(purchaseAmount * 2, 100 * MIN_PAYMENT_FLOOR)
      factor         == amortizedFactor(ft.apr, ft.term_months)
      financedAmount == purchaseAmount - ft.down_payment
      projectedCashBalance ==
        CASE pm \in {"cash", "debit", "savings"} -> cashAfterPurchase(m.liquidAssets, purchaseAmount)
          [] pm = "credit_card"       -> m.liquidAssets
          [] pm = "buy_now_pay_later" -> RoundHalfUpSigned(4 * m.liquidAssets - purchaseAmount, 4)
          [] pm = "financing"         -> m.liquidAssets - (IF ft.defined THEN ft.down_payment ELSE 0)
          [] OTHER                    -> RoundHalfUpSigned(2 * m.liquidAssets - purchaseAmount, 2)
      newMonthlyCashflow ==
        CASE pm = "credit_card"       -> Ratio(100 * m.monthlyCashflow - newMinPayment, 100)
          [] pm = "buy_now_pay_later" -> Ratio(2 * m.monthlyCashflow - purchaseAmount, 2)
          [] pm = "financing" /\ ft.defined ->
               Ratio(m.monthlyCashflow * factor.den - financedAmount * factor.num, factor.den)
          [] OTHER                    -> NullRatio
      newDebtToIncomeRatio ==
        CASE pm = "credit_card" ->
               IF m.monthlyIncome * 12 > 0
               THEN Ratio((100 * m.monthlyDebtPayments + newMinPayment) * 12,
                          100 * m.monthlyIncome * 12)
               ELSE Ratio(0, 1)
          [] pm = "financing" /\ ft.defined ->
               IF m.monthlyIncome * 12 > 0
               THEN Ratio((m.monthlyDebtPayments * factor.den + financedAmount * factor.num) * 12,
                          m.monthlyIncome * 12 * factor.den)
               ELSE Ratio(0, 1)
          [] OTHER -> NullRatio
      creditUtilizationChange ==
        IF pm = "credit_card" /\ totalCreditLimit # 0
        THEN Cents(RoundHalfUp(100 * purchaseAmount, totalCreditLimit))
        ELSE NullCents
      monthlyEssentials == m.monthlyExpenses + m.monthlyDebtPayments
  IN  [ projectedCashBalance     |-> projectedCashBalance,
        monthsOfBufferRemaining  |-> IF monthlyEssentials > 0
                                     THEN Ratio(Max(0, projectedCashBalance), monthlyEssentials)
                                     ELSE Ratio(0, 1),
        newMonthlyCashflow       |-> newMonthlyCashflow,
        newDebtToIncomeRatio     |-> newDebtToIncomeRatio,
        creditUtilizationChange  |-> creditUtilizationChange,
        bufferConsumptionPercent |-> bufferConsumptionPercentOf(m.liquidAssets,
                                                                projectedCashBalance),
        purchaseToIncomeRatio    |-> IF m.monthlyIncome > 0
                                     THEN Ratio(purchaseAmount, m.monthlyIncome)
                                     ELSE Ratio(1, 1) ]

\* Rule thresholds (config/thresholds.ts), as fractions num/den
MINIMUM_POST_PURCHASE_BUFFER_MONTHS == 1
EMERGENCY_FUND_MINIMUM_MONTHS == 3
DTI_ACCEPTABLE_PERCENT == 35
DTI_GOOD_PERCENT == 25
CREDIT_UTILIZATION_GOOD_PERCENT == 30
SMALL_PURCHASE_PERCENT == 5
LARGE_PURCHASE_PERCENT == 25
MAJOR_PURCHASE_PERCENT == 50
MAX_BUFFER_CONSUMPTION_PERCENT == 25

\* Two 2-decimal doubles a/100 and b/100 with a + b = 30 whose double sum is
\* 0.30000000000000004 > 0.3: those with min(a, b) in this set
FloatSumAboveThirty == {2, 3, 7, 10, 13, 14}

RuleResult(id, passed, weight) == [ruleId |-> id, passed |-> passed, weight |-> weight]

sufficientBufferRule(m, imp) ==
  RuleResult("SUFFICIENT_BUFFER",
             RatioGE(imp.monthsOfBufferRemaining, MINIMUM_POST_PURCHASE_BUFFER_MONTHS, 1), 25)

positiveCashflowRule(m, imp) ==
  LET effectiveCashflow == IF imp.newMonthlyCashflow.null
                           THEN Ratio(m.monthlyCashflow, 1) ELSE imp.newMonthlyCashflow
  IN  RuleResult("POSITIVE_CASHFLOW", RatioGT(effectiveCashflow, 0, 1), 20)

debtToIncomeRule(m, imp) ==
  LET effectiveDTI == IF imp.newDebtToIncomeRatio.null
                      THEN m.debtToIncomeRatio ELSE imp.newDebtToIncomeRatio
  IN  RuleResult("DEBT_TO_INCOME", RatioLE(effectiveDTI, DTI_ACCEPTABLE_PERCENT, 100), 15)

creditUtilizationRule(m, imp) ==
  IF imp.creditUtilizationChange.null
  THEN RuleResult("CREDIT_UTILIZATION", TRUE, 0)
  ELSE LET a == m.creditUtilization
           b == imp.creditUtilizationChange.value
           passed == \/ a + b < CREDIT_UTILIZATION_GOOD_PERCENT
                     \/ /\ a + b = CREDIT_UTILIZATION_GOOD_PERCENT
                        /\ Min(a, b) \notin FloatSumAboveThirty
       IN  RuleResult("CREDIT_UTILIZATION", passed, 10)

emergencyFundRule(m, imp) ==
  RuleResult("EMERGENCY_FUND",
             RatioGE(m.emergencyFundMonths, EMERGENCY_FUND_MINIMUM_MONTHS, 1), 15)

purchaseSizeRule(m, imp) ==
  LET ratio  == imp.purchaseToIncomeRatio
      passed == IF RatioLE(ratio, SMALL_PURCHASE_PERCENT, 100) THEN TRUE
                ELSE IF RatioLE(ratio, LARGE_PURCHASE_PERCENT, 100) THEN TRUE
                ELSE IF RatioLE(ratio, MAJOR_PURCHASE_PERCENT, 100)
                     THEN RatioGE(m.emergencyFundMonths, EMERGENCY_FUND_MINIMUM_MONTHS, 1)
                ELSE FALSE
  IN  RuleResult("PURCHASE_SIZE", passed, 10)

bufferConsumptionRule(m, imp) ==
  RuleResult("BUFFER_CONSUMPTION",
             RatioLE(imp.bufferConsumptionPercent, MAX_BUFFER_CONSUMPTION_PERCENT, 100), 5)

luxuryWhileInDebtRule(m, imp) ==
  IF RatioLE(m.debtToIncomeRatio, DTI_GOOD_PERCENT, 100)
  THEN RuleResult("LUXURY_WHILE_IN_DEBT", TRUE, 0)
  ELSE RuleResult("LUXURY_WHILE_IN_DEBT", TRUE, 5)

ALL_RULES(m, imp) ==
  << sufficientBufferRule(m, imp),
     positiveCashflowRule(m, imp),
     debtToIncomeRule(m, imp),
     creditUtilizationRule(m, imp),
     emergencyFundRule(m, imp),
     purchaseSizeRule(m, imp),
     bufferConsumptionRule(m, imp),
     luxuryWhileInDebtRule(m, imp) >>

\* Sets of passed rules for which the double quotient weightedSum / totalWeight
\* (sums accumulated in rule order, every rule but LUXURY_WHILE_IN_DEBT applicable)
\* is 0.39999999999999997 although the exact quotient is 40/100
FloatScoreBelow ==
  { {"CREDIT_UTILIZATION", "EMERGENCY_FUND", "PURCHASE_SIZE", "BUFFER_CONSUMPTION"},
    {"DEBT_TO_INCOME", "CREDIT_UTILIZATION", "PURCHASE_SIZE", "BUFFER_CONSUMPTION"},
    {"POSITIVE_CASHFLOW", "EMERGENCY_FUND", "BUFFER_CONSUMPTION"},
    {"POSITIVE_CASHFLOW", "DEBT_TO_INCOME", "BUFFER_CONSUMPTION"},
    {"SUFFICIENT_BUFFER", "PURCHASE_SIZE", "BUFFER_CONSUMPTION"},
    {"SUFFICIENT_BUFFER", "CREDIT_UTILIZATION", "BUFFER_CONSUMPTION"} }

\* weightedScore >= t/100 as the double comparison decides it
ScoreAtLeast(score, t) ==
  \/ 100 * score.num > t * score.den
  \/ 100 * score.num = t * score.den /\ ~score.roundsBelow

\* a decision mapping whose CONDITIONAL band starts too high
decisionOfShifted(score) ==
  IF ScoreAtLeast(score, 85) THEN "YES"
  ELSE IF ScoreAtLeast(score, 70) THEN "CONDITIONAL"
  ELSE IF ScoreAtLeast(score, 40) THEN "DEFER"
  ELSE "NO"

decisionOf(score) ==
  IF ScoreAtLeast(score, 85) THEN "YES"
  ELSE IF ScoreAtLeast(score, 60) THEN "CONDITIONAL"
  ELSE IF ScoreAtLeast(score, 40) THEN "DEFER"
  ELSE "NO"

\* a risk mapping whose LOW band starts at the CONDITIONAL threshold
riskLevelOfLenient(score) ==
  IF ScoreAtLeast(score, 60) THEN "LOW"
  ELSE IF ScoreAtLeast(score, 40) THEN "HIGH"
  ELSE "CRITICAL"

riskLevelOf(score) ==
  IF ScoreAtLeast(score, 85) THEN "LOW"
  ELSE IF ScoreAtLeast(score, 60) THEN "MODERATE"
  ELSE IF ScoreAtLeast(score, 40) THEN "HIGH"
  ELSE "CRITICAL"

applicableOf(rs) == SelectSeq(rs, LAMBDA r : r.weight > 0)

\* a summand that counts a rule's weight whether or not the rule passed
passedWeightAlways(r) == r.weight

\* the summand of weightedSum
passedWeight(r) == IF r.passed THEN r.weight ELSE 0

evaluateAffordabilityRules(m, imp) ==
  LET rs              == ALL_RULES(m, imp)
      applicableRules == applicableOf(rs)
      totalWeight     == SumSeq([i \in DOMAIN applicableRules |-> applicableRules[i].weight])
      weightedSum     == SumSeq([i \in DOMAIN applicableRules |->
                                   passedWeight(applicableRules[i])])
      passedIds       == {applicableRules[i].ruleId : i \in
                            {j \in DOMAIN applicableRules : applicableRules[j].passed}}
      weightedScore   == IF totalWeight > 0
                         THEN [num |-> weightedSum, den |-> totalWeight,
                               roundsBelow |-> /\ Len(applicableRules) = 7
                                               /\ totalWeight = 100
                                               /\ passedIds \in FloatScoreBelow]
                         ELSE [num |-> 0, den |-> 1, roundsBelow |-> FALSE]
  IN  [ rules              |-> rs,
        passCount          |-> Len(SelectSeq(applicableRules, LAMBDA r : r.passed)),
        failCount          |-> Len(SelectSeq(applicableRules, LAMBDA r : ~r.passed)),
        weightedScore      |-> weightedScore,
        suggestedDecision  |-> decisionOf(weightedScore),
        suggestedRiskLevel |-> riskLevelOf(weightedScore) ]

\* recommendations that leave out the failed emergency-fund rule
getFailedRuleRecommendationsNoFund(rs) ==
  LET failed == SelectSeq(rs, LAMBDA r : ~r.passed /\ r.weight > 0
                                         /\ r.ruleId # "EMERGENCY_FUND")
  IN  [i \in DOMAIN failed |-> failed[i].ruleId]

\* getFailedRuleRecommendations: one recommendation per failed applicable rule
getFailedRuleRecommendations(rs) ==
  LET failed == SelectSeq(rs, LAMBDA r : ~r.passed /\ r.weight > 0)
  IN  [i \in DOMAIN failed |-> failed[i].ruleId]

\* steps 4-7 without the critical-condition overrides
finalDecisionNoOverride(m, imp, ev) == ev.suggestedDecision

\* step 4 of calculateAffordability
finalDecisionOf(m, imp, ev) ==
  LET d1 == IF imp.projectedCashBalance < 0 THEN "NO" ELSE ev.suggestedDecision
      d2 == IF RatioLT(imp.monthsOfBufferRemaining, 1, 2) THEN "NO" ELSE d1
  IN  IF d2 = "YES" /\ RatioLT(m.emergencyFundMonths, 2, 1) THEN "CONDITIONAL" ELSE d2

\* a confidence that is never scaled down
confidenceUnscaled(imp, ev, finalDecision) ==
  [num |-> ev.weightedScore.num, den |-> ev.weightedScore.den]

\* step 5: confidence as a fraction, clamped to [0, 1]
confidenceOf(imp, ev, finalDecision) ==
  LET score  == ev.weightedScore
      scaled == IF RatioLT(imp.monthsOfBufferRemaining, 1, 1) /\ finalDecision # "NO"
                THEN [num |-> 8 * score.num, den |-> 10 * score.den]
                ELSE [num |-> score.num, den |-> score.den]
  IN  IF scaled.num < 0 THEN [num |-> 0, den |-> 1]
      ELSE IF scaled.num > scaled.den THEN [num |-> 1, den |-> 1]
      ELSE scaled

\* calculateAffordability, one action per step
AffordCalculateMetrics ==
  /\ apc = "start"
  /\ metrics' = calculateMetrics(profile)
  /\ apc' = "metrics"
  /\ UNCHANGED <<debtVars, idemVars, profile, purchase, impact, ruleEvaluation, calculation>>

AffordCalculateImpact ==
  /\ apc = "metrics"
  /\ impact' = calculatePurchaseImpact(metrics, purchase, profile)
  /\ apc' = "impact"
  /\ UNCHANGED <<debtVars, idemVars, profile, purchase, metrics, ruleEvaluation, calculation>>

AffordEvaluateRules ==
  /\ apc = "impact"
  /\ ruleEvaluation' = evaluateAffordabilityRules(metrics, impact)
  /\ apc' = "rules"
  /\ UNCHANGED <<debtVars, idemVars, profile, purchase, metrics, impact, calculation>>

AffordDecide ==
  /\ apc = "rules"
  /\ LET finalDecision == finalDecisionOf(metrics, impact, ruleEvaluation)
     IN  calculation' =
           [ decision        |-> finalDecision,
             confidence      |-> confidenceOf(impact, ruleEvaluation, finalDecision),
             riskLevel       |-> ruleEvaluation.suggestedRiskLevel,
             recommendations |-> IF finalDecision = "YES" THEN <<>>
                                 ELSE getFailedRuleRecommendations(ruleEvaluation.rules) ]
  /\ apc' = "done"
  /\ UNCHANGED <<debtVars, idemVars, profile, purchase, metrics, impact, ruleEvaluation>>

\* no simulator call is in progress
DebtIdle ==
  /\ call = "none"
  /\ debts = <<>>
  /\ extraMonthlyPayment = 0
  /\ maxMonths = 0
  /\ strategy = "avalanche"
  /\ simExtra = 0
  /\ debtStates = <<>>
  /\ month = 0
  /\ freedUpMinimums = 0
  /\ totalInterestPaid = 0
  /\ totalAmountPaid = 0
  /\ debtInterestPaid = <<>>
  /\ schedule = <<>>
  /\ payoffOrder = <<>>
  /\ results = <<>>
  /\ comparison = <<>>
  /\ pc = "idle"

InitAfford ==
  /\ DebtIdle
  /\ IdemIdle
  /\ profile \in Profiles
  /\ purchase \in Purchases
  /\ metrics = <<>>
  /\ impact = <<>>
  /\ ruleEvaluation = <<>>
  /\ calculation = <<>>
  /\ apc = "start"

NextAfford ==
  \/ AffordCalculateMetrics
  \/ AffordCalculateImpact
  \/ AffordEvaluateRules
  \/ AffordDecide

SpecAfford == InitAfford /\ [][NextAfford]_vars

-----------------------------------------------------------------------------
(* Idempotency cache (utils/idempotency) and its use by the POST handlers *)

\* bounds of the explored requests and of the clock
MaxRequests == 3
MaxTime == 4

\* 600000 ms, in units of 300000 ms
IDEMPOTENCY_TTL_MS == 2

\* a missing or empty X-Idempotency-Key header
NoKey == ""

IdemKeys == {"k1", "k2"}
RequestKeys == IdemKeys \cup {NoKey}

\* request bodies; "invalid" fails schema validation
Bodies == {"plan_a", "plan_b", "invalid"}

\* sha256 of JSON.stringify(body): distinct bodies have distinct digests
hashBody(body) == <<"sha256", body>>

RemoveKey(c, key) == [k \in DOMAIN c \ {key} |-> c[k]]

\* an expiry test that already drops an entry at the instant it expires
getIdempotentResponseExpiringEarly(c, key, body, t) ==
  IF key = NoKey THEN [kind |-> "null", cache |-> c]
  ELSE IF key \notin DOMAIN c THEN [kind |-> "null", cache |-> c]
  ELSE IF c[key].expiresAt <= t THEN [kind |-> "null", cache |-> RemoveKey(c, key)]
  ELSE IF c[key].bodyHash # hashBody(body) THEN [kind |-> "conflict", cache |-> c]
  ELSE [kind |-> "hit", cache |-> c,
        statusCode |-> c[key].statusCode, payload |-> c[key].payload]

\* the value returned and the cache left behind (an expired entry is deleted)
getIdempotentResponse(c, key, body, t) ==
  IF key = NoKey THEN [kind |-> "null", cache |-> c]
  ELSE IF key \notin DOMAIN c THEN [kind |-> "null", cache |-> c]
  ELSE IF c[key].expiresAt < t THEN [kind |-> "null", cache |-> RemoveKey(c, key)]
  ELSE IF c[key].bodyHash # hashBody(body) THEN [kind |-> "conflict", cache |-> c]
  ELSE [kind |-> "hit", cache |-> c,
        statusCode |-> c[key].statusCode, payload |-> c[key].payload]

storeIdempotentResponse(c, key, body, statusCode, payload, t) ==
  IF key = NoKey THEN c
  ELSE [k \in DOMAIN c \cup {key} |->
          IF k = key
          THEN [ bodyHash   |-> hashBody(body),
                 payload    |-> payload,
                 statusCode |-> statusCode,
                 expiresAt  |-> t + IDEMPOTENCY_TTL_MS ]
          ELSE c[k]]

\* the POST routes that use the cache: one that awaits explanation synthesis
\* between lookup and store, and one that runs to its reply without awaiting
PayoffPlan == "/api/v1/debt/payoff-plan"
Simulate == "/api/v1/debt/simulate"
Endpoints == {PayoffPlan, Simulate}

AwaitsSynthesis(endpoint) == endpoint = PayoffPlan

Reply(id, status, payload, replay) ==
  [request_id |-> id, status |-> status, payload |-> payload, replay |-> replay]

\* the response body a handler builds: it carries the handler's own request_id
\* and the shape of its endpoint
ResponseOf(endpoint, body, id) ==
  [endpoint |-> endpoint, body |-> body, request_id |-> id]

\* a POST handler up to its first await: cache lookup, 409, replay, validation;
\* a handler that never awaits goes on to store and send its response
ReceiveRequest ==
  /\ handled < MaxRequests
  /\ \E endpoint \in Endpoints, key \in RequestKeys, body \in Bodies, throws \in BOOLEAN :
       LET id      == handled + 1
           cached  == getIdempotentResponse(cache, key, body, now)
           payload == ResponseOf(endpoint, body, id)
       IN  /\ request' = [endpoint |-> endpoint, key |-> key, body |-> body]
           /\ handled' = id
           /\ CASE cached.kind = "conflict" ->
                     /\ ~throws
                     /\ response' = Reply(id, 409, "IDEMPOTENCY_KEY_CONFLICT", FALSE)
                     /\ cache' = cached.cache
                     /\ UNCHANGED inflight
                [] cached.kind = "hit" ->
                     /\ ~throws
                     /\ response' = Reply(id, cached.statusCode, cached.payload, TRUE)
                     /\ cache' = cached.cache
                     /\ UNCHANGED inflight
                [] OTHER ->
                     IF body = "invalid"
                     THEN /\ ~throws
                          /\ response' = Reply(id, 400, "VALIDATION_ERROR", FALSE)
                          /\ cache' = cached.cache
                          /\ UNCHANGED inflight
                     ELSE IF AwaitsSynthesis(endpoint)
                     THEN /\ ~throws
                          /\ inflight' = inflight \cup
                               {[id |-> id, endpoint |-> endpoint, key |-> key, body |-> body]}
                          /\ cache' = cached.cache
                          /\ UNCHANGED response
                     ELSE IF throws
                     THEN /\ response' = Reply(id, 500, "INTERNAL_ERROR", FALSE)
                          /\ cache' = cached.cache
                          /\ UNCHANGED inflight
                     ELSE /\ cache' = storeIdempotentResponse(cached.cache, key, body,
                                                              200, payload, now)
                          /\ response' = Reply(id, 200, payload, FALSE)
                          /\ UNCHANGED inflight
  /\ UNCHANGED <<debtVars, affordVars, now>>

\* the rest of an awaiting handler: the response is built, stored and sent, or
\* the computation throws and 500 is sent with nothing stored
FinishRequest ==
  /\ \E r \in inflight, throws \in BOOLEAN :
       /\ inflight' = inflight \ {r}
       /\ IF throws
          THEN /\ response' = Reply(r.id, 500, "INTERNAL_ERROR", FALSE)
               /\ UNCHANGED cache
          ELSE LET payload == ResponseOf(r.endpoint, r.body, r.id)
               IN  /\ cache' = storeIdempotentResponse(cache, r.key, r.body, 200, payload, now)
                   /\ response' = Reply(r.id, 200, payload, FALSE)
  /\ UNCHANGED <<debtVars, affordVars, now, handled, request>>

\* time passes
Tick ==
  /\ now < MaxTime
  /\ now' = now + 1
  /\ UNCHANGED <<debtVars, affordVars, cache, inflight, handled, request, response>>

InitIdem ==
  /\ DebtIdle
  /\ AffordIdle
  /\ IdemIdle

NextIdem ==
  \/ ReceiveRequest
  \/ FinishRequest
  \/ Tick

SpecIdem == InitIdem /\ [][NextIdem]_vars

\* time since the entry under key k was stored
ElapsedSinceStored(k) == now - (cache[k].expiresAt - IDEMPOTENCY_TTL_MS)

\* the request received in this step was answered at once from the cache
ReplayedFromCache(k) ==
  /\ response'.request_id = handled'
  /\ response'.replay
  /\ response'.status = cache[k].statusCode
  /\ response'.payload = cache[k].payload
  /\ cache' = cache
  /\ inflight' = inflight

RejectedAsConflict ==
  /\ response'.request_id = handled'
  /\ response'.status = 409
  /\ cache' = cache
  /\ inflight' = inflight

\* the reply sent in this step to the request received in it
SentNow(status) ==
  /\ response'.request_id = handled'
  /\ response'.status = status
  /\ ~response'.replay

\* the stored entry is gone and the request went on to validation and
\* computation: nothing of the old entry is left or sent
ComputedAfresh(k) ==
  /\ k \in DOMAIN cache' => cache'[k].payload.request_id = handled'
  /\ IF request'.body = "invalid"
     THEN /\ SentNow(400)
          /\ k \notin DOMAIN cache'
     ELSE IF AwaitsSynthesis(request'.endpoint)
     THEN /\ [id |-> handled', endpoint |-> request'.endpoint,
               key |-> k, body |-> request'.body] \in inflight'
          /\ k \notin DOMAIN cache'
          /\ UNCHANGED response
     ELSE \/ /\ SentNow(500)
             /\ k \notin DOMAIN cache'
          \/ /\ SentNow(200)
             /\ response'.payload = ResponseOf(request'.endpoint, request'.body, handled')
             /\ k \in DOMAIN cache'

\* C17 as stated: for a request with X-Idempotency-Key K, a response stored under
\* K less than IDEMPOTENCY_TTL_MS ago for the same body is replayed without
\* recomputation; if the stored body differs the request is rejected with 409 and
\* the entry is left unchanged; once the TTL has elapsed the entry is treated as
\* absent and the request is computed afresh.
C17_ReplayWithinTtl ==
  [][ (handled' = handled + 1 /\ request'.key \in DOMAIN cache) =>
        LET k == request'.key IN
          IF ElapsedSinceStored(k) < IDEMPOTENCY_TTL_MS
          THEN IF cache[k].bodyHash = hashBody(request'.body)
               THEN ReplayedFromCache(k) ELSE RejectedAsConflict
          ELSE ComputedAfresh(k) ]_vars

\* C17 amended: a response stored under K at most IDEMPOTENCY_TTL_MS ago for the
\* same body is replayed without recomputation; if the stored body differs the
\* request is rejected with 409 and the entry is left unchanged; once more than
\* the TTL has elapsed the entry is deleted and the request is computed afresh.
C17_ReplayUpToTtl ==
  [][ (handled' = handled + 1 /\ request'.key \in DOMAIN cache) =>
        LET k == request'.key IN
          IF ElapsedSinceStored(k) <= IDEMPOTENCY_TTL_MS
          THEN IF cache[k].bodyHash = hashBody(request'.body)
               THEN ReplayedFromCache(k) ELSE RejectedAsConflict
          ELSE ComputedAfresh(k) ]_vars

\* a replay of an entry stored exactly IDEMPOTENCY_TTL_MS earlier
C17_Witness ==
  /\ response # <<>>
  /\ request # <<>>
  /\ response.replay
  /\ response.request_id = handled
  /\ request.key \in DOMAIN cache
  /\ now = cache[request.key].expiresAt
  /\ response.payload = cache[request.key].payload

\* request r, in flight before this step, is answered in it with a computed
\* response
FinishesComputed(r) ==
  /\ r \in inflight
  /\ r \notin inflight'
  /\ response'.request_id = r.id
  /\ response'.status = 200

\* a response to the key and body of r is in the cache, stored by a request to
\* the same endpoint.  r found no live entry when it arrived, and each request
\* stores once, so the entry was stored while r was in flight, by a request
\* that was in flight together with r.
TwinHasStored(r) ==
  /\ r.key \in DOMAIN cache
  /\ cache[r.key].bodyHash = hashBody(r.body)
  /\ cache[r.key].payload.endpoint = r.endpoint

\* C23: of two requests with the same X-Idempotency-Key and body that are in
\* flight together on an endpoint that awaits explanation synthesis between
\* lookup and store, only one is computed and both receive the same payload:
\* the request that finishes second is answered with the payload already
\* stored by the first.
C23_ConcurrentTwinsComputeOnce ==
  [][ \A r \in inflight :
        (FinishesComputed(r) /\ TwinHasStored(r)) =>
          response'.payload = cache[r.key].payload ]_vars

\* C24: a response stored under an idempotency key by one endpoint is never
\* replayed to a request made to another endpoint: every replayed response was
\* produced by an earlier request to the same endpoint.
C24_ReplayStaysOnItsEndpoint ==
  (response # <<>> /\ response.request_id = handled /\ response.replay) =>
    response.payload.endpoint = request.endpoint

-----------------------------------------------------------------------------
(* Properties of the affordability engine *)

AffordDone == apc = "done"

\* C7: calculateAffordability returns NO whenever the projected cash balance is
\* negative or fewer than 0.5 months of buffer remain, whatever the weighted
\* score, and never returns YES when emergency-fund months is below 2: a YES
\* that no NO override replaced is then returned as CONDITIONAL.
C7_OverridesApplied ==
  AffordDone =>
    LET forcedNo == \/ impact.projectedCashBalance < 0
                    \/ RatioLT(impact.monthsOfBufferRemaining, 1, 2)
        lowFund  == RatioLT(metrics.emergencyFundMonths, 2, 1)
    IN  /\ forcedNo => calculation.decision = "NO"
        /\ lowFund => calculation.decision # "YES"
        /\ (~forcedNo /\ lowFund /\ ruleEvaluation.suggestedDecision = "YES")
              => calculation.decision = "CONDITIONAL"
        /\ (~forcedNo /\ ~(lowFund /\ ruleEvaluation.suggestedDecision = "YES"))
              => calculation.decision = ruleEvaluation.suggestedDecision

\* a negative projected cash balance forces NO on a score in the CONDITIONAL band
C7_Witness ==
  /\ AffordDone
  /\ impact.projectedCashBalance < 0
  /\ ruleEvaluation.suggestedDecision = "CONDITIONAL"
  /\ calculation.decision = "NO"

\* C8 as stated: for any profile and any purchase whose amount exceeds the
\* profile's total liquid assets, calculateAffordability returns NO and a
\* projected cash balance below 0.
C8_ExceedingLiquidAssetsIsNo ==
  (AffordDone /\ purchase.amount > metrics.liquidAssets) =>
    /\ calculation.decision = "NO"
    /\ impact.projectedCashBalance < 0

\* C8 amended: for any profile and any purchase paid by cash, debit or savings
\* whose amount (in whole cents) exceeds the profile's total liquid assets,
\* calculateAffordability returns NO and a projected cash balance below 0.
C8_ExceedingLiquidAssetsPaidFromCashIsNo ==
  ( /\ AffordDone
    /\ purchase.payment_method \in {"cash", "debit", "savings"}
    /\ purchase.amount > metrics.liquidAssets ) =>
    /\ calculation.decision = "NO"
    /\ impact.projectedCashBalance < 0

\* a cash purchase above the liquid assets of a profile that has some, whose
\* score alone would not have given NO
C8_Witness ==
  /\ AffordDone
  /\ purchase.payment_method = "cash"
  /\ metrics.liquidAssets > 0
  /\ purchase.amount > metrics.liquidAssets
  /\ ruleEvaluation.suggestedDecision # "NO"
  /\ calculation.decision = "NO"
  /\ impact.projectedCashBalance < 0

\* weightedScore, as the double the code holds, against t/100
ScoreBelow(t) ==
  LET score == ruleEvaluation.weightedScore
  IN  \/ 100 * score.num < t * score.den
      \/ 100 * score.num = t * score.den /\ score.roundsBelow

\* C9: the suggested decision is YES exactly when weightedScore >= 0.85,
\* CONDITIONAL when 0.60 <= score < 0.85, DEFER when 0.40 <= score < 0.60 and NO
\* when score < 0.40; the suggested risk level uses the same thresholds, so the
\* pair is one of (YES, LOW), (CONDITIONAL, MODERATE), (DEFER, HIGH), (NO, CRITICAL).
C9_DecisionThresholds ==
  apc \in {"rules", "done"} =>
    LET d == ruleEvaluation.suggestedDecision
        r == ruleEvaluation.suggestedRiskLevel
    IN  /\ d = "YES"         <=> ~ScoreBelow(85)
        /\ d = "CONDITIONAL" <=> (~ScoreBelow(60) /\ ScoreBelow(85))
        /\ d = "DEFER"       <=> (~ScoreBelow(40) /\ ScoreBelow(60))
        /\ d = "NO"          <=> ScoreBelow(40)
        /\ <<d, r>> \in { <<"YES", "LOW">>, <<"CONDITIONAL", "MODERATE">>,
                          <<"DEFER", "HIGH">>, <<"NO", "CRITICAL">> }

\* a score of exactly 60/100, the lower edge of the CONDITIONAL band
C9_Witness ==
  /\ apc = "rules"
  /\ ruleEvaluation.weightedScore.num = 60
  /\ ruleEvaluation.weightedScore.den = 100
  /\ ruleEvaluation.suggestedDecision = "CONDITIONAL"
  /\ ruleEvaluation.suggestedRiskLevel = "MODERATE"

RECURSIVE SumOver(_, _)
SumOver(S, rs) == IF S = {} THEN 0
                  ELSE LET i == CHOOSE x \in S : TRUE
                       IN  rs[i].weight + SumOver(S \ {i}, rs)

\* C10: weightedScore is the sum of the weights of the passed rules of non-zero
\* weight divided by the sum of the weights of all rules of non-zero weight (0
\* when there is none), and so lies in [0, 1].
C10_WeightedScoreIsPassedOverApplicable ==
  apc \in {"rules", "done"} =>
    LET rs         == ruleEvaluation.rules
        applicable == {i \in DOMAIN rs : rs[i].weight # 0}
        passed     == {i \in applicable : rs[i].passed}
        score      == ruleEvaluation.weightedScore
    IN  /\ score.den > 0
        /\ score.num * SumOver(applicable, rs) = SumOver(passed, rs) * score.den
        /\ 0 <= score.num
        /\ score.num <= score.den

\* a rule of weight 0 beside applicable rules that passed and that failed
C10_Witness ==
  /\ apc = "rules"
  /\ \E i \in DOMAIN ruleEvaluation.rules : ruleEvaluation.rules[i].weight = 0
  /\ ruleEvaluation.weightedScore.num > 0
  /\ ruleEvaluation.weightedScore.num < ruleEvaluation.weightedScore.den
  /\ ruleEvaluation.passCount > 0
  /\ ruleEvaluation.failCount > 0

AffordImpactKnown == apc \in {"impact", "rules", "done"}

\* the denominators of the guarded divisions
EssentialsOf == metrics.monthlyExpenses + metrics.monthlyDebtPayments

LimitsOf(positiveOnly) ==
  LET cards == SelectSeq(profile.debts,
                         LAMBDA d : /\ d.type = "credit_card"
                                    /\ d.credit_limit # NoLimit
                                    /\ (positiveOnly => d.credit_limit > 0))
  IN  SumSeq([i \in DOMAIN cards |-> cards[i].credit_limit])

IsZeroRatio(r) == ~r.null /\ r.num = 0 /\ r.den > 0
IsOneRatio(r)  == ~r.null /\ r.num = r.den /\ r.den > 0

\* C15 as stated: every division whose denominator (income, expenses plus debt
\* payments, liquid assets, total credit limit) is zero yields 0: debt-to-income,
\* savings rate, emergency-fund months, credit utilization, buffer months
\* remaining, buffer consumption percent and purchase-to-income ratio.
C15_ZeroDenominatorYieldsZero ==
  AffordImpactKnown =>
    /\ metrics.monthlyIncome = 0 =>
          /\ IsZeroRatio(metrics.debtToIncomeRatio)
          /\ IsZeroRatio(metrics.savingsRate)
          /\ IsZeroRatio(impact.purchaseToIncomeRatio)
    /\ EssentialsOf = 0 =>
          /\ IsZeroRatio(metrics.emergencyFundMonths)
          /\ IsZeroRatio(impact.monthsOfBufferRemaining)
    /\ metrics.liquidAssets = 0 => IsZeroRatio(impact.bufferConsumptionPercent)
    /\ LimitsOf(TRUE) = 0 => metrics.creditUtilization = 0

\* C15 amended: a zero denominator never raises and never gives a non-finite
\* value; it yields 0 for debt-to-income (current and projected), savings rate,
\* emergency-fund months, credit utilization and buffer months remaining, 1 for
\* buffer consumption percent and purchase-to-income ratio, and leaves the credit
\* utilization change null.
C15_ZeroDenominatorYieldsDefault ==
  AffordImpactKnown =>
    /\ metrics.monthlyIncome = 0 =>
          /\ IsZeroRatio(metrics.debtToIncomeRatio)
          /\ IsZeroRatio(metrics.savingsRate)
          /\ IsOneRatio(impact.purchaseToIncomeRatio)
          /\ impact.newDebtToIncomeRatio.null \/ IsZeroRatio(impact.newDebtToIncomeRatio)
    /\ EssentialsOf = 0 =>
          /\ IsZeroRatio(metrics.emergencyFundMonths)
          /\ IsZeroRatio(impact.monthsOfBufferRemaining)
    /\ metrics.liquidAssets = 0 => IsOneRatio(impact.bufferConsumptionPercent)
    /\ LimitsOf(TRUE) = 0 => metrics.creditUtilization = 0
    /\ LimitsOf(FALSE) = 0 => impact.creditUtilizationChange.null
    /\ \A r \in { metrics.debtToIncomeRatio, metrics.savingsRate, metrics.emergencyFundMonths,
                  impact.monthsOfBufferRemaining, impact.bufferConsumptionPercent,
                  impact.purchaseToIncomeRatio, impact.newDebtToIncomeRatio,
                  impact.newMonthlyCashflow } : r.den > 0

\* a credit-card purchase by a profile with no income, no expenses or debt
\* payments, no liquid assets and a card whose credit limit is 0
C15_Witness ==
  /\ apc = "done"
  /\ metrics.monthlyIncome = 0
  /\ metrics.monthlyExpenses = 0
  /\ metrics.liquidAssets = 0
  /\ profile.debts # <<>>
  /\ LimitsOf(FALSE) = 0
  /\ purchase.payment_method = "credit_card"
  /\ IsOneRatio(impact.bufferConsumptionPercent)
  /\ IsOneRatio(impact.purchaseToIncomeRatio)

BufferBelowOneMonth == RatioLT(impact.monthsOfBufferRemaining, 1, 1)

\* C16: the confidence returned by calculateAffordability is weightedScore,
\* multiplied by 0.8 exactly when buffer months remaining is below 1 and the final
\* decision is not NO, and it lies in [0, 1].
C16_ConfidenceScaling ==
  AffordDone =>
    LET score == ruleEvaluation.weightedScore
        conf  == calculation.confidence
    IN  /\ conf.den > 0
        /\ IF BufferBelowOneMonth /\ calculation.decision # "NO"
           THEN 10 * conf.num * score.den = 8 * score.num * conf.den
           ELSE conf.num * score.den = score.num * conf.den
        /\ 0 <= conf.num
        /\ conf.num <= conf.den

\* less than a month of buffer, a decision other than NO, a positive score
C16_Witness ==
  /\ AffordDone
  /\ BufferBelowOneMonth
  /\ calculation.decision = "CONDITIONAL"
  /\ ruleEvaluation.weightedScore.num > 0
  /\ calculation.confidence.num * ruleEvaluation.weightedScore.den
       < ruleEvaluation.weightedScore.num * calculation.confidence.den

\* C18: whenever calculateAffordability returns NO or DEFER the returned riskLevel
\* is not LOW, and whenever it returns YES the riskLevel is LOW, decisions made by
\* the overrides included.
C18_RiskLevelMatchesDecision ==
  AffordDone =>
    /\ calculation.decision \in {"NO", "DEFER"} => calculation.riskLevel # "LOW"
    /\ calculation.decision = "YES" => calculation.riskLevel = "LOW"

\* an override turned a suggested CONDITIONAL into NO; the risk level is MODERATE
C18_Witness ==
  /\ AffordDone
  /\ calculation.decision = "NO"
  /\ ruleEvaluation.suggestedDecision = "CONDITIONAL"
  /\ calculation.riskLevel = "MODERATE"

EffectiveCashflow ==
  IF impact.newMonthlyCashflow.null THEN Ratio(metrics.monthlyCashflow, 1)
  ELSE impact.newMonthlyCashflow

EffectiveDTI ==
  IF impact.newDebtToIncomeRatio.null THEN metrics.debtToIncomeRatio
  ELSE impact.newDebtToIncomeRatio

\* C30: each of the eight rules passes exactly under its tabled condition and
\* carries its tabled weight: buffer months remaining >= 1 (0.25); post-purchase
\* cashflow > 0 (0.20); post-purchase DTI <= 0.35 (0.15); post-purchase
\* utilization <= 0.30 (0.10, weight 0 without a utilization change);
\* emergency-fund months >= 3 (0.15); purchase size (0.10) passing up to 25% of
\* income, up to 50% only with emergency-fund months >= 3, failing above 50%;
\* buffer consumption <= 0.25 (0.05); luxury-while-in-debt always passing
\* (0.05, weight 0 when DTI <= 0.25).
C30_RulesPassUnderTabledConditions ==
  apc \in {"rules", "done"} =>
    LET rs   == ruleEvaluation.rules
        fund == RatioGE(metrics.emergencyFundMonths, 3, 1)
        size == impact.purchaseToIncomeRatio
    IN  /\ Len(rs) = 8
        /\ rs[1] = RuleResult("SUFFICIENT_BUFFER",
                              RatioGE(impact.monthsOfBufferRemaining, 1, 1), 25)
        /\ rs[2] = RuleResult("POSITIVE_CASHFLOW", RatioGT(EffectiveCashflow, 0, 1), 20)
        /\ rs[3] = RuleResult("DEBT_TO_INCOME", RatioLE(EffectiveDTI, 35, 100), 15)
        /\ rs[4].ruleId = "CREDIT_UTILIZATION"
        /\ IF impact.creditUtilizationChange.null THEN rs[4].weight = 0
           ELSE /\ rs[4].weight = 10
                /\ rs[4].passed <=>
                     metrics.creditUtilization + impact.creditUtilizationChange.value <= 30
        /\ rs[5] = RuleResult("EMERGENCY_FUND", fund, 15)
        /\ rs[6] = RuleResult("PURCHASE_SIZE",
                              \/ RatioLE(size, 25, 100)
                              \/ RatioLE(size, 50, 100) /\ fund,
                              10)
        /\ rs[7] = RuleResult("BUFFER_CONSUMPTION",
                              RatioLE(impact.bufferConsumptionPercent, 25, 100), 5)
        /\ rs[8] = RuleResult("LUXURY_WHILE_IN_DEBT", TRUE,
                              IF RatioLE(metrics.debtToIncomeRatio, 25, 100) THEN 0 ELSE 5)

-----------------------------------------------------------------------------
(* Properties relating the simulator and the affordability engine *)

\* C25: for a credit_card debt without minimum_payment the minimum payment the
\* simulator resolves is max(2% of balance, $25), the estimate calculateMetrics
\* uses for that debt.
C25_CreditCardMinimumEstimate ==
  \A i \in DOMAIN debts :
    (debts[i].type = "credit_card" /\ debts[i].minimum_payment = NoMin) =>
      /\ debtStates[i].minimumPayment * 100
           = Max(debts[i].balance * MIN_CREDIT_CARD_PAYMENT_PERCENT, MIN_PAYMENT_FLOOR * 100)
      /\ debtStates[i].minimumPayment = affordMinimumPayment(debts[i])

====
